---- MODULE Spec2Model ----
(***************************************************************************)
(* Federated NPB player-data access layer of baseball-mcp:                 *)
(*   - NPBDataAggregator.search_player / get_player_stats / _merge_stats   *)
(*     (src/npb/aggregator.py)                                             *)
(*   - CompositeProvider.get_player_stats                                  *)
(*     (src/npb/providers/composite_provider.py)                           *)
(*   - search_npb_player_with_smart_selection (src/npb_api.py)             *)
(* Each component is a state machine whose await points are the steps.     *)
(***************************************************************************)
EXTENDS Integers, Sequences, FiniteSets, TLC

(***************************************************************************)
(* Bounds of the model                                                     *)
(***************************************************************************)
\* longest priority list handed to set_priorities
MaxPrio == 1
\* longest player list one provider returns from search_player
MaxRes == 2
\* a provider's stats object has all advanced fields set, or at most this many
MaxAdvanced == 1
\* most season rows in one provider response
MaxRows == 2
\* the seasons of the model lie this many years around the cutoff year
YearSpan == 2
\* most candidates an aggregator search hands to the disambiguation workflow
MaxCand == 3
\* most calls of search_player / get_player_stats made on the source objects
MaxOps == 2
\* the clock of the cache stops at this many hours
MaxClock == 24
\* longest name handed to the name utilities, in characters
MaxNameLen == 3
\* largest counting stat (at-bats, hits, walks, home runs) of a batting row
MaxCount == 2
\* most fetches started through one rate-limited instance
MaxRequests == 3
\* the clock of the rate limiter stops here, in half seconds
MaxTime == 14
\* most pages a call fetches inside one "async with" block of a scraper
MaxFetches == 2

VARIABLES
    \* ---- NPBDataAggregator ----
    sources,            \* self.sources: the configured provider names
    source_priorities,  \* self.source_priorities: operation -> ordered names
    aggOp,              \* the operation called: its priority-list key
    aggPc,              \* position of the aggregator call
    aggList,            \* the list object the loop iterates: the priority
                        \* list as it was when the loop started
    aggIdx,             \* index of the next entry of that list
    all_players,        \* search_player: accumulated list
    seen_ids,           \* search_player: ids already taken
    base_stats,         \* get_player_stats: best stats object so far
    first_stats,        \* history: the first non-null stats object as returned
    aggLog,             \* history: the provider calls made, in order
    aggBroke,           \* history: the loop left through break
    heap,               \* the stats objects the providers returned: each as it
                        \* was returned and as it is now
    base_ref            \* the object of heap base_stats refers to (0: none)

VARIABLES
    \* ---- CompositeProvider.get_player_stats ----
    compPc,             \* position of the call
    compSeason,         \* the season argument (None for career)
    compCalls,          \* history: the provider calls issued, in order
    historical_stats,   \* the historical provider's response (later the result)
    hist_returned,      \* history: that response as the provider returned it
    modern_stats,       \* the scraper provider's response
    compResult          \* the value returned

compVars == <<compPc, compSeason, compCalls, historical_stats, hist_returned,
              modern_stats, compResult>>

VARIABLES
    \* ---- search_npb_player_with_smart_selection ----
    smartPc,            \* position of the workflow
    players,            \* the candidates aggregator.search_player returned
    tasks,              \* the check_player_has_npb_stats tasks of the candidates
    additional_tasks,   \* the tasks of the register entries
    results,            \* the (player, has_stats) pairs of the first gather
    smartResult         \* the text returned, as its parts

smartVars == <<smartPc, players, tasks, additional_tasks, results, smartResult>>

\* the stats objects and the reference held by get_player_stats
objVars == <<heap, base_ref>>

aggVars == <<sources, source_priorities, aggOp, aggPc, aggList, aggIdx, all_players, seen_ids,
             base_stats, first_stats, aggLog, aggBroke, objVars>>

VARIABLES
    \* ---- NPBDataAggregator.health_check ----
    healthPc,           \* position of the call
    healthLeft,         \* the items of self.sources still to probe, in order
    health_status,      \* the dictionary built: source name -> bool
    healthLog           \* history: what each source's health_check did

healthVars == <<healthPc, healthLeft, health_status, healthLog>>

VARIABLES
    \* ---- CompositeProvider.search_player ----
    csPc,               \* position of the call
    historical_results, \* the list the historical provider returned
    modern_results,     \* the list the scraper provider returned
    all_results         \* the list returned

compSearchVars == <<csPc, historical_results, modern_results, all_results>>

VARIABLES
    \* ---- get_standings of the historical and the composite provider ----
    stPc,               \* position of the call
    stProvider,         \* the provider whose get_standings was called
    stSeason,           \* the season argument
    stLeague,           \* the league argument
    stCalls,            \* history: the scraper calls issued
    stResult            \* the dictionary returned

standVars == <<stPc, stProvider, stSeason, stLeague, stCalls, stResult>>

VARIABLES
    \* ---- NPBOfficialSource objects and the cache of cache_utils ----
    now,                \* the clock, in hours
    cache,              \* the files of CACHE_DIR: cache key -> entry
    srcPc,              \* per caller: position of its source call
    srcSelf,            \* per caller: the source object the call is made on
    srcOp,              \* per caller: the method called
    srcIdx,             \* per caller: the page of the method's loop that is next
    srcPlayers,         \* per caller, search_player: the players found so far
    srcResult,          \* per caller: the value returned
    srcLog,             \* history: the latest call of a wrapped method by the call
    srcOps              \* the number of calls made so far

srcVars == <<now, cache, srcPc, srcSelf, srcOp, srcIdx, srcPlayers, srcResult, srcLog,
             srcOps>>

VARIABLES
    \* ---- name_utils ----
    nmPc,               \* which function was applied last
    nmName,             \* the name x, a sequence of characters
    nmStrict,           \* the strict argument of match_name
    nmNormalized,       \* normalize_name(x)
    nmVariants,         \* generate_name_variants(x)
    nmMatch             \* match_name(normalize_name(x), x, strict)

nameVars == <<nmPc, nmName, nmStrict, nmNormalized, nmVariants, nmMatch>>

VARIABLES
    \* ---- the producers of batting season records ----
    btPc,               \* "start" or "done"
    btRecord            \* the records emitted, with the name of their producer

batVars == <<btPc, btRecord>>

VARIABLES
    \* ---- one rate-limited scraper / source instance and its callers ----
    limKind,            \* the class of the instance
    limClock,           \* the time, in half seconds
    last_request_time,  \* the field of the instance
    limPc,              \* caller -> position in fetch_page
    limWake,            \* caller -> the time its sleep ends
    limRequests         \* history: the outbound requests, in order

limVars == <<limKind, limClock, last_request_time, limPc, limWake, limRequests>>

VARIABLES
    \* ---- one ScraperProvider, its two scrapers and its concurrent calls ----
    clients,            \* the httpx clients made so far: "open" or "closed"
    session,            \* scraper -> its session field: a client, 0 for None
    provPc,             \* caller -> position in the provider method
    provScraper,        \* caller -> the scraper whose block it is in
    provFetches,        \* caller -> pages fetched in the block
    provLog             \* history: the requests sent, with the state of the client

provVars == <<clients, session, provPc, provScraper, provFetches, provLog>>

\* the variables an operation of another component leaves alone
notAgg == <<compVars, smartVars, healthVars, compSearchVars, standVars, srcVars, nameVars, batVars, limVars, provVars>>
notComp == <<aggVars, smartVars, healthVars, compSearchVars, standVars, srcVars, nameVars, batVars, limVars, provVars>>
notSmart == <<aggVars, compVars, healthVars, compSearchVars, standVars, srcVars, nameVars, batVars, limVars, provVars>>
notHealth == <<aggVars, compVars, smartVars, compSearchVars, standVars, srcVars, nameVars, batVars, limVars, provVars>>
notCompSearch == <<aggVars, compVars, smartVars, healthVars, standVars, srcVars, nameVars, batVars, limVars, provVars>>
notStand == <<aggVars, compVars, smartVars, healthVars, compSearchVars, srcVars, nameVars, batVars, limVars, provVars>>
notSrc == <<aggVars, compVars, smartVars, healthVars, compSearchVars, standVars, nameVars, batVars, limVars, provVars>>

notNames == <<aggVars, compVars, smartVars, healthVars, compSearchVars, standVars, srcVars, batVars, limVars, provVars>>

notBat == <<aggVars, compVars, smartVars, healthVars, compSearchVars, standVars, srcVars, nameVars, limVars, provVars>>

notLim == <<aggVars, compVars, smartVars, healthVars, compSearchVars, standVars, srcVars, nameVars, batVars, provVars>>

notProv == <<aggVars, compVars, smartVars, healthVars, compSearchVars, standVars, srcVars, nameVars, batVars, limVars>>

vars == <<aggVars, compVars, smartVars, healthVars, compSearchVars, standVars, srcVars, nameVars, batVars, limVars, provVars>>

(***************************************************************************)
(* Values                                                                  *)
(***************************************************************************)
\* Python's None
None == "None"

\* an Optional[object] that is None, and one that holds the object x
NoObject == <<>>
Some(x) == <<x>>

\* the registered source names (npb/sources/__init__.py imports these three)
Providers == {"baseball_reference", "npb_official", "fangraphs"}

\* the priority lists the constructor installs
DefaultPriorities ==
    [player_search |-> <<"baseball_reference", "npb_official", "fangraphs">>,
     player_stats  |-> <<"baseball_reference", "npb_official", "fangraphs">>]

\* all sequences over S of length at most n
SeqsUpTo(S, n) == UNION {[1..k -> S] : k \in 0..n}

\* the ids a provider can report for the searched name
SearchIds == {"p1", "p2"}

\* the optional advanced fields of NPBPlayerStats
AdvancedFields == {"war", "wrc_plus", "xwoba", "fip", "xfip"}

\* the value a provider reports in its k-th call: distinct per call, so that
\* an overwritten field is visible
ValueOfCall(k) == <<"v1", "v2", "v3", "v4", "v5", "v6">>[k]

\* NPBPlayer objects as returned by provider p in call number c: the id, the
\* source tag, and the identity of the object (call, position)
PlayerObj(id, p, c, pos) == [id |-> id, source |-> p, call |-> c, pos |-> pos]

\* the list of NPBPlayer objects for a list of ids
PlayersOf(ids, p, c) == [i \in 1..Len(ids) |-> PlayerObj(ids[i], p, c, i)]

\* the sets of advanced fields a provider's stats object carries
StatsShapes ==
    {S \in SUBSET AdvancedFields : Cardinality(S) <= MaxAdvanced \/ S = AdvancedFields}

\* the NPBPlayerStats object provider p returns in call number c with the
\* advanced fields of S set: a set field carries the call's value; games stands
\* for the basic fields, source is the "+"-joined tag as the list of its parts
StatsObject(p, c, S) ==
    LET v(f) == IF f \in S THEN ValueOfCall(c) ELSE None
    IN [games |-> ValueOfCall(c),
        war |-> v("war"), wrc_plus |-> v("wrc_plus"), xwoba |-> v("xwoba"),
        fip |-> v("fip"), xfip |-> v("xfip"), source |-> <<p>>]

(***************************************************************************)
(* NPBDataAggregator                                                       *)
(***************************************************************************)
\* a merge that appends every returned player
MergePlayersNoCheck(acc, seen, returned) ==
    [all |-> acc \o returned, seen |-> seen \cup {returned[i].id : i \in 1..Len(returned)}]

\* search_player, lines 97-101: append the players whose id is new
RECURSIVE MergePlayers(_, _, _)
MergePlayers(acc, seen, returned) ==
    IF returned = <<>> THEN [all |-> acc, seen |-> seen]
    ELSE LET p == Head(returned) IN
         IF p.id \notin seen
         THEN MergePlayers(Append(acc, p), seen \cup {p.id}, Tail(returned))
         ELSE MergePlayers(acc, seen, Tail(returned))

\* a merge that lets the secondary value win
MergeFieldOverwrite(primary, secondary, f) ==
    IF secondary[f] # None THEN secondary[f] ELSE primary[f]

\* _merge_stats: fill the unset advanced fields of primary from secondary and
\* retag the source ("primary.source+secondary.source")
MergeField(primary, secondary, f) ==
    IF secondary[f] # None /\ primary[f] = None THEN secondary[f] ELSE primary[f]

_merge_stats(primary, secondary) ==
    [games    |-> primary.games,
     war      |-> MergeField(primary, secondary, "war"),
     wrc_plus |-> MergeField(primary, secondary, "wrc_plus"),
     xwoba    |-> MergeField(primary, secondary, "xwoba"),
     fip      |-> MergeField(primary, secondary, "fip"),
     xfip     |-> MergeField(primary, secondary, "xfip"),
     source   |-> primary.source \o secondary.source]

\* the position after one iteration of a loop over the priority list
NextPc(lst, idx, loopPc) ==
    IF idx > Len(lst) THEN "done" ELSE loopPc

\* search_player, line 104: stop after the first-priority source found
\* players; the first priority is read from self.source_priorities as it is
\* when the provider has returned
SearchStops(all, source_name) ==
    /\ all # <<>>
    /\ source_priorities["player_search"] # <<>>
    /\ source_name = source_priorities["player_search"][1]

\* search_player, line 104: [0] of an empty list raises IndexError, which the
\* except clause of line 107 catches
SearchIndexError(all) == all # <<>> /\ source_priorities["player_search"] = <<>>

\* an entry of the call log: the provider called, how its call ended, what it
\* returned, and whether line 104 raised after it returned
LogCall(src, kind, ret, index_error) ==
    [src |-> src, kind |-> kind, ret |-> ret, index_error |-> index_error]

\* a loop without the except clause: the provider's exception leaves the call
AfterProviderErrorAbort(lst, idx, loopPc) == "raised"

\* the except clauses of both loops (lines 107-109, 167-169): log and continue
AfterProviderError(lst, idx, loopPc) == NextPc(lst, idx + 1, loopPc)

AggInit ==
    /\ sources \in SUBSET Providers
    /\ source_priorities = DefaultPriorities
    /\ aggOp = "none"
    /\ aggPc = "idle"
    /\ aggList = <<>>
    /\ aggIdx = 1
    /\ all_players = <<>>
    /\ seen_ids = {}
    /\ base_stats = NoObject
    /\ first_stats = NoObject
    /\ aggLog = <<>>
    /\ aggBroke = FALSE
    /\ heap = <<>>
    /\ base_ref = 0
    /\ healthPc = "idle"
    /\ healthLeft = <<>>
    /\ health_status = <<>>
    /\ healthLog = <<>>

\* set_priorities(operation, sources): a plain assignment, callable at any
\* time, also while a call is suspended at a provider
set_priorities(operation, lst) ==
    /\ source_priorities' = [source_priorities EXCEPT ![operation] = lst]
    /\ UNCHANGED notAgg
    /\ UNCHANGED objVars
    /\ UNCHANGED <<sources, aggOp, aggPc, aggList, aggIdx, all_players, seen_ids, base_stats,
                   first_stats, aggLog, aggBroke>>

\* search_player(name) without source, up to the loop
SearchStart ==
    /\ aggPc = "idle"
    /\ healthPc = "idle"
    /\ aggOp' = "player_search"
    /\ aggList' = source_priorities["player_search"]
    /\ aggPc' = NextPc(source_priorities["player_search"], 1, "search")
    /\ aggIdx' = 1
    /\ all_players' = <<>>
    /\ seen_ids' = {}
    /\ UNCHANGED notAgg
    /\ UNCHANGED objVars
    /\ UNCHANGED <<sources, source_priorities, base_stats, first_stats, aggLog,
                   aggBroke>>

\* search_player, lines 91-92: the entry is not a configured source
SearchSkip ==
    /\ aggPc = "search"
    /\ aggList[aggIdx] \notin sources
    /\ aggIdx' = aggIdx + 1
    /\ aggPc' = NextPc(aggList, aggIdx + 1, "search")
    /\ UNCHANGED notAgg
    /\ UNCHANGED objVars
    /\ UNCHANGED <<sources, source_priorities, aggList, aggOp, all_players, seen_ids, base_stats,
                   first_stats, aggLog, aggBroke>>

\* search_player, lines 94-109: the provider returns a list of players; the
\* players are merged, then line 104 breaks, raises into the except clause or
\* lets the loop go on
SearchCallReturns(ids) ==
    /\ aggPc = "search"
    /\ LET source_name == aggList[aggIdx]
           returned == PlayersOf(ids, source_name, Len(aggLog) + 1)
           m == MergePlayers(all_players, seen_ids, returned)
           stop == SearchStops(m.all, source_name)
           index_error == SearchIndexError(m.all)
       IN /\ source_name \in sources
          /\ all_players' = m.all
          /\ seen_ids' = m.seen
          /\ aggLog' = Append(aggLog, LogCall(source_name, "ok", ids, index_error))
          /\ aggBroke' = stop
          /\ aggIdx' = IF stop THEN aggIdx ELSE aggIdx + 1
          /\ aggPc' = IF stop THEN "done"
                      ELSE IF index_error
                      THEN AfterProviderError(aggList, aggIdx, "search")
                      ELSE NextPc(aggList, aggIdx + 1, "search")
    /\ UNCHANGED notAgg
    /\ UNCHANGED objVars
    /\ UNCHANGED <<sources, source_priorities, aggList, aggOp, base_stats, first_stats>>

\* search_player, lines 107-109: the provider raises, the loop continues
SearchCallRaises ==
    /\ aggPc = "search"
    /\ LET source_name == aggList[aggIdx]
       IN /\ source_name \in sources
          /\ aggLog' = Append(aggLog, LogCall(source_name, "raise", <<>>, FALSE))
    /\ aggIdx' = aggIdx + 1
    /\ aggPc' = AfterProviderError(aggList, aggIdx, "search")
    /\ UNCHANGED notAgg
    /\ UNCHANGED objVars
    /\ UNCHANGED <<sources, source_priorities, aggList, aggOp, all_players, seen_ids, base_stats,
                   first_stats, aggBroke>>

\* get_player_stats(player_id, season, stats_type) without source, up to the loop
StatsStart ==
    /\ aggPc = "idle"
    /\ healthPc = "idle"
    /\ aggOp' = "player_stats"
    /\ aggList' = source_priorities["player_stats"]
    /\ aggPc' = NextPc(source_priorities["player_stats"], 1, "stats")
    /\ aggIdx' = 1
    /\ base_stats' = NoObject
    /\ UNCHANGED notAgg
    /\ UNCHANGED objVars
    /\ UNCHANGED <<sources, source_priorities, all_players, seen_ids, first_stats,
                   aggLog, aggBroke>>

\* get_player_stats, lines 148-149: the entry is not a configured source
StatsSkip ==
    /\ aggPc = "stats"
    /\ aggList[aggIdx] \notin sources
    /\ aggIdx' = aggIdx + 1
    /\ aggPc' = NextPc(aggList, aggIdx + 1, "stats")
    /\ UNCHANGED notAgg
    /\ UNCHANGED objVars
    /\ UNCHANGED <<sources, source_priorities, aggList, aggOp, all_players, seen_ids, base_stats,
                   first_stats, aggLog, aggBroke>>

\* get_player_stats, line 164: stop once the accumulated object has a WAR
StatsStops(base) == base # NoObject /\ base[1].war # None

\* get_player_stats, lines 156-161: keep the first object, merge the later ones
Accumulate(base, stats) ==
    IF stats = NoObject THEN base
    ELSE IF base = NoObject THEN stats
    ELSE Some(_merge_stats(base[1], stats[1]))

\* a heap object: the stats object as its provider returned it and as it is
HeapObject(obj) == [returned |-> obj, now |-> obj]

\* lines 151-161 on the heap: the returned object is new; a merge writes the
\* merged fields into the object base_stats refers to (merged = primary)
HeapAfter(h, ref, stats) ==
    IF stats = NoObject THEN h
    ELSE IF ref = 0 THEN Append(h, HeapObject(stats[1]))
    ELSE [Append(h, HeapObject(stats[1])) EXCEPT
             ![ref].now = _merge_stats(h[ref].now, stats[1])]

\* the object base_stats refers to after the call: the first object returned
RefAfter(h, ref, stats) ==
    IF stats # NoObject /\ ref = 0 THEN Len(h) + 1 ELSE ref

\* get_player_stats, lines 151-165: the provider returns a stats object with
\* the advanced fields of S set (found), or None
StatsCallReturns(found, S) ==
    /\ aggPc = "stats"
    /\ LET source_name == aggList[aggIdx]
           stats == IF found THEN Some(StatsObject(source_name, Len(aggLog) + 1, S))
                    ELSE NoObject
           acc == Accumulate(base_stats, stats)
           stop == stats # NoObject /\ StatsStops(acc)
       IN /\ source_name \in sources
          /\ base_stats' = acc
          /\ heap' = HeapAfter(heap, base_ref, stats)
          /\ base_ref' = RefAfter(heap, base_ref, stats)
          /\ first_stats' = IF first_stats = NoObject THEN stats ELSE first_stats
          /\ aggLog' = Append(aggLog, LogCall(source_name, "ok", stats, FALSE))
          /\ aggBroke' = stop
          /\ aggIdx' = IF stop THEN aggIdx ELSE aggIdx + 1
          /\ aggPc' = IF stop THEN "done"
                      ELSE NextPc(aggList, aggIdx + 1, "stats")
    /\ UNCHANGED notAgg
    /\ UNCHANGED <<sources, source_priorities, aggList, aggOp, all_players, seen_ids>>

\* get_player_stats, lines 167-169: the provider raises, the loop continues
StatsCallRaises ==
    /\ aggPc = "stats"
    /\ LET source_name == aggList[aggIdx]
       IN /\ source_name \in sources
          /\ aggLog' = Append(aggLog, LogCall(source_name, "raise", <<>>, FALSE))
    /\ aggIdx' = aggIdx + 1
    /\ aggPc' = AfterProviderError(aggList, aggIdx, "stats")
    /\ UNCHANGED notAgg
    /\ UNCHANGED objVars
    /\ UNCHANGED <<sources, source_priorities, aggList, aggOp, all_players, seen_ids, base_stats,
                   first_stats, aggBroke>>

\* the orders in which a dictionary with the keys of S can have been filled
OrdersOf(S) ==
    {q \in [1..Cardinality(S) -> S] : \A i, j \in 1..Cardinality(S) : q[i] = q[j] => i = j}

\* health_status[source_name] = value
SetItem(dict, key, value) == (key :> value) @@ [k \in DOMAIN dict \ {key} |-> dict[k]]

\* a health check that records nothing for a source whose probe raised
HealthAfterErrorSkip(status, source_name) == status

\* lines 253-254: except Exception: health_status[source_name] = False
HealthAfterError(status, source_name) == SetItem(status, source_name, FALSE)

\* health_check(), lines 248-250: up to the first probe; the items of
\* self.sources come in the order the constructor filled the dictionary
HealthStart(order) ==
    /\ aggPc = "idle" /\ aggOp = "none"
    /\ healthPc = "idle"
    /\ order \in OrdersOf(sources)
    /\ healthLeft' = order
    /\ health_status' = <<>>
    /\ healthPc' = IF order = <<>> THEN "done" ELSE "probing"
    /\ UNCHANGED healthLog
    /\ UNCHANGED notHealth

\* lines 251-252: the source's health_check returns value
HealthProbeReturns(value) ==
    /\ healthPc = "probing"
    /\ health_status' = SetItem(health_status, Head(healthLeft), value)
    /\ healthLog' = Append(healthLog, [src |-> Head(healthLeft), raised |-> FALSE,
                                      value |-> value])
    /\ healthLeft' = Tail(healthLeft)
    /\ healthPc' = IF Tail(healthLeft) = <<>> THEN "done" ELSE "probing"
    /\ UNCHANGED notHealth

\* lines 253-254: the source's health_check raises
HealthProbeRaises ==
    /\ healthPc = "probing"
    /\ health_status' = HealthAfterError(health_status, Head(healthLeft))
    /\ healthLog' = Append(healthLog, [src |-> Head(healthLeft), raised |-> TRUE,
                                      value |-> FALSE])
    /\ healthLeft' = Tail(healthLeft)
    /\ healthPc' = IF Tail(healthLeft) = <<>> THEN "done" ELSE "probing"
    /\ UNCHANGED notHealth

\* the get_player_stats calls of an aggregator whose 'player_stats' list is
\* reconfigured at any time
AggStatsNext ==
    \/ \E lst \in SeqsUpTo(Providers, MaxPrio) : set_priorities("player_stats", lst)
    \/ StatsStart
    \/ StatsSkip
    \/ \E S \in StatsShapes : StatsCallReturns(TRUE, S)
    \/ StatsCallReturns(FALSE, {})
    \/ StatsCallRaises

\* the calls of an aggregator whose 'player_search' list is reconfigured at any
\* time
AggNext ==
    \/ \E lst \in SeqsUpTo(Providers, MaxPrio) : set_priorities("player_search", lst)
    \/ SearchStart
    \/ SearchSkip
    \/ \E ids \in SeqsUpTo(SearchIds, MaxRes) : SearchCallReturns(ids)
    \/ SearchCallRaises
    \/ StatsStart
    \/ StatsSkip
    \/ \E S \in StatsShapes : StatsCallReturns(TRUE, S)
    \/ StatsCallReturns(FALSE, {})
    \/ StatsCallRaises
    \/ \E order \in SeqsUpTo(Providers, Cardinality(Providers)) : HealthStart(order)
    \/ \E value \in BOOLEAN : HealthProbeReturns(value)
    \/ HealthProbeRaises

(***************************************************************************)
(* CompositeProvider.get_player_stats                                      *)
(***************************************************************************)
HISTORICAL_CUTOFF_YEAR == 2005

\* the seasons of the model
Years == (HISTORICAL_CUTOFF_YEAR - YearSpan)..(HISTORICAL_CUTOFF_YEAR + YearSpan - 1)

\* the season arguments: None, 0, or a year
SeasonArgs == {NoObject} \cup {Some(y) : y \in {0} \cup Years}

\* Python truthiness of an Optional[int] ("if season:", "if not season:")
Truthy(season) == season # NoObject /\ season[1] # 0

\* the counting fields of the i-th season row of a provider: a row is a
\* batting row or a pitching row and has the keys of its kind only (a key a
\* row does not have counts as 0 in the sums, as s.get(key, 0) does)
CountsOf(origin, kind, i) ==
    IF origin = "historical"
    THEN IF kind = "batting"
         THEN [hits |-> i, at_bats |-> 3 * i, walks |-> 1]
         ELSE [earned_runs |-> i, innings_pitched |-> 2 * i + 1, hits_allowed |-> i + 1,
               walks |-> 1]
    ELSE IF kind = "batting"
         THEN [hits |-> 2, at_bats |-> 5, walks |-> 0]
         ELSE [earned_runs |-> 3, innings_pitched |-> 7, hits_allowed |-> 4, walks |-> 0]

\* the season rows of a response: season, the provider that made the row, its
\* position in that provider's list, its kind and the counting fields of the
\* kind
RowsOf(seasons, origin, kind) ==
    [i \in 1..Len(seasons) |->
        [season |-> seasons[i], origin |-> origin, n |-> i, kind |-> kind]
            @@ CountsOf(origin, kind, i)]

\* a response dictionary: "error" in it or not, its "stats" list, its "source",
\* its "stats_type" and its "career_totals" (NoObject: the key is absent)
Response(isError, rows, src, stats_type, career_totals) ==
    [error |-> isError, stats |-> rows, source |-> src, stats_type |-> stats_type,
     career_totals |-> career_totals]
ErrorResponse == Response(TRUE, <<>>, "none", "none", NoObject)

\* sum(s.get(f, 0) for s in stats_list)
RECURSIVE SumField(_, _)
SumField(stats_list, f) ==
    IF stats_list = <<>> THEN 0
    ELSE (IF f \in DOMAIN Head(stats_list) THEN Head(stats_list)[f] ELSE 0)
           + SumField(Tail(stats_list), f)

\* ---- Python floats: IEEE 754 doubles ----
\* the 52 fraction bits of a float are kept as four limbs of 13 bits
Limb == 2^13

\* n / d scaled by a power of two into [1, 2): the scaled numerator and
\* denominator and the exponent e with d * 2^e <= n < d * 2^(e + 1)
RECURSIVE Normalized(_, _, _)
Normalized(n, d, e) ==
    IF n < d THEN Normalized(2 * n, d, e - 1)
    ELSE IF n >= 2 * d THEN Normalized(n, 2 * d, e + 1)
    ELSE [n |-> n, d |-> d, e |-> e]

\* a positive float: value = (1 + frac / 2^52) * 2^exp, frac as four limbs,
\* the most significant first
Float(exp, frac) == [exp |-> exp, frac |-> frac]

\* the exact quotient n / d (n, d > 0) cut off after 52 fraction bits, with
\* the remainder
ExactQuotient(n, d) ==
    LET z == Normalized(n, d, 0)
        r0 == z.n - z.d
        r1 == (r0 * Limb) % z.d
        r2 == (r1 * Limb) % z.d
        r3 == (r2 * Limb) % z.d
        r4 == (r3 * Limb) % z.d
    IN [exp |-> z.e,
        frac |-> <<(r0 * Limb) \div z.d, (r1 * Limb) \div z.d,
                   (r2 * Limb) \div z.d, (r3 * Limb) \div z.d>>,
        rem |-> r4, d |-> z.d]

\* n / d is rounded up to its float (round to nearest, ties to even)
QuotientRoundsUp(n, d) ==
    LET q == ExactQuotient(n, d)
    IN 2 * q.rem > q.d \/ (2 * q.rem = q.d /\ q.frac[4] % 2 = 1)

\* a cut-off significand made a float: when up, the next float above it
RoundToFloat(exp, frac, up) ==
    LET inc == IF up THEN 1 ELSE 0
        s4 == frac[4] + inc
        s3 == frac[3] + s4 \div Limb
        s2 == frac[2] + s3 \div Limb
        s1 == frac[1] + s2 \div Limb
    IN IF s1 \div Limb = 1 THEN Float(exp + 1, <<0, 0, 0, 0>>)
       ELSE Float(exp, <<s1, s2 % Limb, s3 % Limb, s4 % Limb>>)

\* the float n / d of two positive ints (true division is correctly rounded),
\* and float("0.ddd") for d = 1000
FloatOf(n, d) ==
    LET q == ExactQuotient(n, d)
    IN RoundToFloat(q.exp, q.frac, QuotientRoundsUp(n, d))

\* the sign of float(n / d) - n / d
FloatError(n, d) ==
    IF n = 0 THEN 0
    ELSE IF QuotientRoundsUp(n, d) THEN 1
    ELSE IF ExactQuotient(n, d).rem = 0 THEN 0 ELSE -1

\* x + y of two positive floats, x.exp >= y.exp: the significands are added
\* exactly, as ten limbs under the leading bits, and the sum is rounded
FloatAddOrdered(x, y) ==
    LET shift == x.exp - y.exp
        k == shift \div 13
        t == shift % 13
        X(j) == IF j = 1 THEN 1 ELSE IF j \in 2..5 THEN x.frac[j - 1] ELSE 0
        yl(j) == IF j = 1 THEN 1 ELSE IF j \in 2..5 THEN y.frac[j - 1] ELSE 0
        w(j) == IF j \in 1..6
                THEN (yl(j - 1) % 2^t) * 2^(13 - t) + yl(j) \div 2^t
                ELSE 0
        Y(j) == w(j - k)
        carry[j \in 1..11] ==
            IF j = 11 THEN 0 ELSE (X(j) + Y(j) + carry[j + 1]) \div Limb
        T(j) == IF j = 1 THEN X(1) + Y(1) + carry[2]
                ELSE (X(j) + Y(j) + carry[j + 1]) % Limb
        low == \E j \in 7..10 : T(j) # 0
    IN IF shift >= 54 THEN x
       ELSE IF T(1) = 1
       THEN RoundToFloat(x.exp, <<T(2), T(3), T(4), T(5)>>,
                         T(6) > Limb \div 2
                           \/ (T(6) = Limb \div 2 /\ (low \/ T(5) % 2 = 1)))
       ELSE LET half == Limb \div 2
                frac == <<(T(1) % 2) * half + T(2) \div 2,
                          (T(2) % 2) * half + T(3) \div 2,
                          (T(3) % 2) * half + T(4) \div 2,
                          (T(4) % 2) * half + T(5) \div 2>>
                rest == T(6) # 0 \/ low
            IN RoundToFloat(x.exp + 1, frac,
                            T(5) % 2 = 1 /\ (rest \/ frac[4] % 2 = 1))

\* x + y of two positive floats
FloatAdd(x, y) == IF x.exp >= y.exp THEN FloatAddOrdered(x, y) ELSE FloatAddOrdered(y, x)

\* the number of floats from y up to x (negative: down to x), for two positive
\* floats a few floats apart
UlpsBetween(x, y) ==
    LET d0 == x.exp - y.exp
        d1 == d0 * Limb + x.frac[1] - y.frac[1]
        d2 == d1 * Limb + x.frac[2] - y.frac[2]
        d3 == d2 * Limb + x.frac[3] - y.frac[3]
    IN d3 * Limb + x.frac[4] - y.frac[4]

\* a float near a number of three decimals: the float that float("0.ddd")
\* gives for that number of thousandths, moved up by ulps floats
PyFloat(thousandths, ulps) == [thousandths |-> thousandths, ulps |-> ulps]

\* a + b of the floats of two cells of three decimals (in thousandths): the
\* float sum, which is not always the float of the decimal sum
CellSum(a, b) ==
    IF a = 0 \/ b = 0 THEN PyFloat(a + b, 0)
    ELSE PyFloat(a + b, UlpsBetween(FloatAdd(FloatOf(a, 1000), FloatOf(b, 1000)),
                                    FloatOf(a + b, 1000)))

\* round(num / den, digits) of two ints, in units of 10^-digits (scale is
\* 10^digits): the float num / den rounded to the nearest, and when the exact
\* quotient lies halfway, to the side its float lies on (ties to even when the
\* float is the quotient itself)
RoundedRate(num, den, scale) ==
    LET q == (num * scale) \div den
        r == (num * scale) % den
        err == FloatError(num, den)
    IN IF 2 * r < den THEN q
       ELSE IF 2 * r > den THEN q + 1
       ELSE IF err > 0 THEN q + 1
       ELSE IF err < 0 THEN q
       ELSE IF q % 2 = 0 THEN q ELSE q + 1

\* _calculate_batting_totals: sums, and the average from the sums (thousandths)
_calculate_batting_totals(stats_list) ==
    [seasons |-> Len(stats_list),
     games |-> SumField(stats_list, "games"),
     at_bats |-> SumField(stats_list, "at_bats"),
     runs |-> SumField(stats_list, "runs"),
     hits |-> SumField(stats_list, "hits"),
     doubles |-> SumField(stats_list, "doubles"),
     triples |-> SumField(stats_list, "triples"),
     home_runs |-> SumField(stats_list, "home_runs"),
     rbis |-> SumField(stats_list, "rbis"),
     stolen_bases |-> SumField(stats_list, "stolen_bases"),
     walks |-> SumField(stats_list, "walks"),
     strikeouts |-> SumField(stats_list, "strikeouts"),
     batting_average |->
        IF SumField(stats_list, "at_bats") > 0
        THEN RoundedRate(SumField(stats_list, "hits"), SumField(stats_list, "at_bats"), 1000)
        ELSE 0]

\* _calculate_pitching_totals: sums, ERA (hundredths) and WHIP (thousandths)
\* from the sums
_calculate_pitching_totals(stats_list) ==
    LET ip == SumField(stats_list, "innings_pitched")
    IN [seasons |-> Len(stats_list),
        wins |-> SumField(stats_list, "wins"),
        losses |-> SumField(stats_list, "losses"),
        games |-> SumField(stats_list, "games"),
        games_started |-> SumField(stats_list, "games_started"),
        complete_games |-> SumField(stats_list, "complete_games"),
        shutouts |-> SumField(stats_list, "shutouts"),
        saves |-> SumField(stats_list, "saves"),
        innings_pitched |-> ip,
        hits_allowed |-> SumField(stats_list, "hits_allowed"),
        earned_runs |-> SumField(stats_list, "earned_runs"),
        walks |-> SumField(stats_list, "walks"),
        strikeouts |-> SumField(stats_list, "strikeouts"),
        era |-> IF ip > 0
                THEN RoundedRate(SumField(stats_list, "earned_runs") * 9, ip, 100) ELSE 0,
        whip |-> IF ip > 0
                 THEN RoundedRate(SumField(stats_list, "hits_allowed")
                                    + SumField(stats_list, "walks"), ip, 1000)
                 ELSE 0]

\* lines 119-122: the totals for the response's stats_type
TotalsFor(stats_type, stats_list) ==
    IF stats_type = "batting" THEN _calculate_batting_totals(stats_list)
    ELSE _calculate_pitching_totals(stats_list)

\* the per-player aggregate row of the store for a player with these season
\* rows: none, a row that agrees with the season rows, or a row kept apart
\* from them (here: one that counts a season the store has no row for)
StoredCareerRows(stats_type, stats_list) ==
    LET t == TotalsFor(stats_type, stats_list)
    IN {NoObject, Some(t), Some([t EXCEPT !.seasons = @ + 1, !.walks = @ + 1])}

\* the stats_type values of a historical response
StatsTypes == {"batting", "pitching"}

IsNonDecreasing(seasons) ==
    \A i \in 1..(Len(seasons) - 1) : seasons[i] <= seasons[i + 1]

\* HistoricalDataProvider.get_player_stats(player_id, None): an error when the
\* player or the statistics are missing, else a non-empty list ORDER BY season
\* of the player's batting rows, or of the pitching rows of a player without
\* batting rows
HistoricalCareerResponses ==
    {ErrorResponse} \cup
    UNION {UNION {{Response(FALSE, RowsOf(ys, "historical", st), "none", st, ct) :
                      ct \in StoredCareerRows(st, RowsOf(ys, "historical", st))} :
                  st \in StatsTypes} :
           ys \in {q \in SeqsUpTo(Years, MaxRows) : q # <<>> /\ IsNonDecreasing(q)}}

\* HistoricalDataProvider.get_player_stats(player_id, season): an error, or
\* the player's rows of the season, batting or pitching; no career totals
HistoricalSeasonResponses(season) ==
    {ErrorResponse} \cup
    {Response(FALSE, RowsOf(ys, "historical", st), "none", st, NoObject) :
        st \in StatsTypes,
        ys \in {q \in SeqsUpTo({season}, MaxRows) : q # <<>>}}

\* ScraperProvider.get_player_stats looking at one season: the player's row
\* of the batting pages of the official site, else the row of its pitching
\* pages; else what Baseball-Reference has: nothing (an error), or the first
\* row of the season of its batting or pitching table, which may have none
\* (a response without "error" and with an empty list); no career totals
ScraperSeasonResponses(season) ==
    {ErrorResponse} \cup
    UNION {{Response(FALSE, <<>>, "none", st, NoObject),
            Response(FALSE, RowsOf(<<season>>, "modern", st), "none", st, NoObject)} :
           st \in StatsTypes}

\* ScraperProvider.get_player_stats(player_id, None): lines 76-77 make the
\* season the current season, whichever year that is
ModernCareerResponses == UNION {ScraperSeasonResponses(y) : y \in Years}

\* the responses of the provider a season request is routed to
SeasonResponses(origin, season) ==
    IF origin = "historical" THEN HistoricalSeasonResponses(season)
    ELSE ScraperSeasonResponses(season)

\* a sort that puts a row before the rows of the same season
InsertBeforeEqual(sorted, row) ==
    LET k == Cardinality({i \in 1..Len(sorted) : sorted[i].season < row.season})
    IN SubSeq(sorted, 1, k) \o <<row>> \o SubSeq(sorted, k + 1, Len(sorted))

\* sorted(all_stats, key=season) is stable: a row goes after the rows whose
\* season is not larger
InsertStable(sorted, row) ==
    LET k == Cardinality({i \in 1..Len(sorted) : sorted[i].season <= row.season})
    IN SubSeq(sorted, 1, k) \o <<row>> \o SubSeq(sorted, k + 1, Len(sorted))

RECURSIVE SortedBySeason(_)
SortedBySeason(rows) ==
    IF rows = <<>> THEN <<>>
    ELSE InsertStable(SortedBySeason(SubSeq(rows, 1, Len(rows) - 1)), rows[Len(rows)])

\* lines 107-113: keep the first row of every season
RECURSIVE UniqueBySeason(_, _)
UniqueBySeason(rows, seen_years) ==
    IF rows = <<>> THEN <<>>
    ELSE IF Head(rows).season \notin seen_years
         THEN <<Head(rows)>> \o UniqueBySeason(Tail(rows), seen_years \cup {Head(rows).season})
         ELSE UniqueBySeason(Tail(rows), seen_years)

\* lines 104-122: the merged career response: the historical response with
\* the de-duplicated rows, the source "combined" and recomputed totals
CombineCareer(hist, modern) ==
    LET unique_stats == UniqueBySeason(SortedBySeason(hist.stats \o modern.stats), {})
    IN Response(FALSE, unique_stats, "combined", hist.stats_type,
                IF hist.stats_type \in StatsTypes
                THEN Some(TotalsFor(hist.stats_type, unique_stats))
                ELSE hist.career_totals)

\* line 96: max(stat.get("season", 0) for stat in stats)
LastYear(rows) == CHOOSE y \in {rows[i].season : i \in 1..Len(rows)} :
                      \A i \in 1..Len(rows) : rows[i].season <= y

\* a check that asks the scraper only from the cutoff year on
MightHaveModernLate(last_year) == last_year >= HISTORICAL_CUTOFF_YEAR

\* line 98: the player may have continued after the cutoff year
MightHaveModern(last_year) == last_year >= HISTORICAL_CUTOFF_YEAR - 1

\* line 83: a season before the cutoff goes to the historical provider
RoutesToHistorical(y) == y < HISTORICAL_CUTOFF_YEAR

CompIdle ==
    /\ csPc = "idle"
    /\ historical_results = <<>>
    /\ modern_results = <<>>
    /\ all_results = <<>>
    /\ stPc = "idle"
    /\ stProvider = "none"
    /\ stSeason = NoObject
    /\ stLeague = None
    /\ stCalls = <<>>
    /\ stResult = NoObject
    /\ compPc = "idle"
    /\ compSeason = NoObject
    /\ compCalls = <<>>
    /\ historical_stats = NoObject
    /\ hist_returned = NoObject
    /\ modern_stats = NoObject
    /\ compResult = NoObject

Call(prov, season) == [prov |-> prov, season |-> season]

\* get_player_stats(player_id, season), lines 82-90: up to the first await
CompStart(season) ==
    /\ compPc = "idle" /\ csPc = "idle" /\ stPc = "idle"
    /\ compSeason' = season
    /\ IF Truthy(season)
       THEN IF RoutesToHistorical(season[1])
            THEN /\ compPc' = "hist_season"
                 /\ compCalls' = <<Call("historical", season)>>
            ELSE /\ compPc' = "mod_season"
                 /\ compCalls' = <<Call("scraper", season)>>
       ELSE /\ compPc' = "hist_career"
            /\ compCalls' = <<Call("historical", NoObject)>>
    /\ UNCHANGED <<historical_stats, hist_returned, modern_stats, compResult>>
    /\ UNCHANGED notComp

\* lines 84 and 86: the routed provider's response is returned as it is
SeasonCallReturns(resp) ==
    /\ compPc \in {"hist_season", "mod_season"}
    /\ resp \in SeasonResponses(IF compPc = "hist_season" THEN "historical" ELSE "modern",
                                compSeason[1])
    /\ compResult' = Some(resp)
    /\ compPc' = "done"
    /\ UNCHANGED <<compSeason, compCalls, historical_stats, hist_returned, modern_stats>>
    /\ UNCHANGED notComp

\* lines 90-101 and 126-129: the historical career response arrives
HistCareerReturns(resp) ==
    /\ compPc = "hist_career"
    /\ historical_stats' = Some(resp)
    /\ hist_returned' = Some(resp)
    /\ IF ~resp.error
       THEN IF resp.stats # <<>> /\ MightHaveModern(LastYear(resp.stats))
            THEN /\ compPc' = "mod_merge"
                 /\ compCalls' = Append(compCalls, Call("scraper", NoObject))
                 /\ UNCHANGED compResult
            ELSE /\ compPc' = "done"
                 /\ compResult' = Some(resp)
                 /\ UNCHANGED compCalls
       ELSE /\ compPc' = "mod_alone"
            /\ compCalls' = Append(compCalls, Call("scraper", compSeason))
            /\ UNCHANGED compResult
    /\ UNCHANGED <<compSeason, modern_stats>>
    /\ UNCHANGED notComp

\* lines 101-126: the scraper's career response arrives and is merged in
ModernMergeReturns(resp) ==
    /\ compPc = "mod_merge"
    /\ modern_stats' = Some(resp)
    /\ historical_stats' =
          IF ~resp.error /\ resp.stats # <<>>
          THEN Some(CombineCareer(historical_stats[1], resp))
          ELSE historical_stats
    /\ compResult' = historical_stats'
    /\ compPc' = "done"
    /\ UNCHANGED <<compSeason, compCalls, hist_returned>>
    /\ UNCHANGED notComp

\* lines 123-126: the scraper raises, the historical response is returned
ModernMergeRaises ==
    /\ compPc = "mod_merge"
    /\ compResult' = historical_stats
    /\ compPc' = "done"
    /\ UNCHANGED <<compSeason, compCalls, historical_stats, hist_returned, modern_stats>>
    /\ UNCHANGED notComp

\* line 129: the scraper's response is returned alone
ModernAloneReturns(resp) ==
    /\ compPc = "mod_alone"
    /\ modern_stats' = Some(resp)
    /\ compResult' = Some(resp)
    /\ compPc' = "done"
    /\ UNCHANGED <<compSeason, compCalls, historical_stats, hist_returned>>
    /\ UNCHANGED notComp

\* lines 84, 86, 90, 129: an exception of an unguarded provider call leaves
\* get_player_stats
CompCallRaises ==
    /\ compPc \in {"hist_season", "mod_season", "hist_career", "mod_alone"}
    /\ compPc' = "raised"
    /\ UNCHANGED <<compSeason, compCalls, historical_stats, hist_returned, modern_stats,
                   compResult>>
    /\ UNCHANGED notComp

\* ---- CompositeProvider.search_player ----
\* the ids the two providers can report for the searched name
CompositeSearchIds == {"p1", "p2", "p3"}

\* a provider's result list: the player dictionaries with their ids, the
\* provider that made them and their position; "source" is not set yet
SearchResultOf(ids, origin) ==
    [i \in 1..Len(ids) |-> [id |-> ids[i], origin |-> origin, n |-> i, source |-> "none"]]

\* HistoricalDataProvider.search_player: one entry per row of the players
\* table, so no id twice
HistoricalSearchResults ==
    {SearchResultOf(ids, "historical") :
        ids \in {q \in SeqsUpTo(CompositeSearchIds, MaxRes) :
                    \A i, j \in 1..Len(q) : q[i] = q[j] => i = j}}

\* ScraperProvider.search_player: the entries of the pages; the id of an
\* entry is the number in the URL of its link or else made from its name, and
\* is "" for a link without text and without a number
ModernSearchResults ==
    {SearchResultOf(ids, "modern") : ids \in SeqsUpTo(CompositeSearchIds \cup {""}, MaxRes)}

\* player['source'] = tag, for every player of the list
Tagged(lst, tag) == [i \in 1..Len(lst) |-> [lst[i] EXCEPT !.source = tag]]

\* a combination that takes every scraper result
KeepsModernAlways(player_id, seen) == TRUE

\* line 58: if player_id and player_id not in seen_ids
KeepsModern(player_id, seen) == player_id # "" /\ player_id \notin seen

\* lines 44-61: the historical results, then the scraper results whose id no
\* historical result has
CombineSearch(hist, modern) ==
    LET seen == {hist[i].id : i \in 1..Len(hist)}
        Kept(player) == KeepsModern(player.id, seen)
    IN Tagged(hist, "historical") \o Tagged(SelectSeq(modern, Kept), "modern")

\* search_player(name), up to the first await (line 43)
CSearchStart ==
    /\ compPc = "idle" /\ csPc = "idle" /\ stPc = "idle"
    /\ csPc' = "historical"
    /\ UNCHANGED <<historical_results, modern_results, all_results>>
    /\ UNCHANGED notCompSearch

\* line 43: the historical provider's list arrives; the scraper is asked
CSearchHistoricalReturns(res) ==
    /\ csPc = "historical"
    /\ historical_results' = res
    /\ csPc' = "modern"
    /\ UNCHANGED <<modern_results, all_results>>
    /\ UNCHANGED notCompSearch

\* lines 44-63: the scraper's list arrives; the combined list is returned
CSearchModernReturns(res) ==
    /\ csPc = "modern"
    /\ modern_results' = res
    /\ all_results' = CombineSearch(historical_results, res)
    /\ csPc' = "done"
    /\ UNCHANGED historical_results
    /\ UNCHANGED notCompSearch

\* lines 43-44: an exception of either provider leaves search_player
CSearchRaises ==
    /\ csPc \in {"historical", "modern"}
    /\ csPc' = "raised"
    /\ UNCHANGED <<historical_results, modern_results, all_results>>
    /\ UNCHANGED notCompSearch

\* ---- get_standings ----
\* the league arguments
Leagues == {"central", "pacific", None}

\* a standings dictionary: "error" in it or not, and what made it
Standings(isError, origin) == [error |-> isError, origin |-> origin]

\* HistoricalDataProvider.get_standings: the same dictionary for every
\* league and season
HistoricalStandings(league, season) == Standings(TRUE, "historical")

\* ScraperProvider.get_standings: the error dictionary when the page gave
\* nothing, else the standings by league
ScraperStandings == {Standings(TRUE, "scraper"), Standings(FALSE, "scraper")}

\* line 221: if season and season < self.HISTORICAL_CUTOFF_YEAR
StandingsNotAvailable(season) == Truthy(season) /\ season[1] < HISTORICAL_CUTOFF_YEAR

\* HistoricalDataProvider.get_standings(league, season)
HistoricalGetStandings(league, season) ==
    /\ compPc = "idle" /\ csPc = "idle" /\ stPc = "idle"
    /\ stProvider' = "historical"
    /\ stLeague' = league
    /\ stSeason' = season
    /\ stResult' = Some(HistoricalStandings(league, season))
    /\ stPc' = "done"
    /\ UNCHANGED stCalls
    /\ UNCHANGED notStand

\* CompositeProvider.get_standings(league, season), lines 221-227: answer
\* at once, or ask the scraper provider
CompositeGetStandings(league, season) ==
    /\ compPc = "idle" /\ csPc = "idle" /\ stPc = "idle"
    /\ stProvider' = "composite"
    /\ stLeague' = league
    /\ stSeason' = season
    /\ IF StandingsNotAvailable(season)
       THEN /\ stResult' = Some(Standings(TRUE, "composite"))
            /\ stPc' = "done"
            /\ UNCHANGED stCalls
       ELSE /\ stCalls' = <<[league |-> league, season |-> season]>>
            /\ stPc' = "scraper"
            /\ UNCHANGED stResult
    /\ UNCHANGED notStand

\* line 227: the scraper provider's dictionary is returned
ScraperStandingsReturns(resp) ==
    /\ stPc = "scraper"
    /\ stResult' = Some(resp)
    /\ stPc' = "done"
    /\ UNCHANGED <<stProvider, stSeason, stLeague, stCalls>>
    /\ UNCHANGED notStand

\* line 227: an exception of the scraper provider leaves get_standings
ScraperStandingsRaises ==
    /\ stPc = "scraper"
    /\ stPc' = "raised"
    /\ UNCHANGED <<stProvider, stSeason, stLeague, stCalls, stResult>>
    /\ UNCHANGED notStand

CompNext ==
    \/ \E season \in SeasonArgs : CompStart(season)
    \/ \E resp \in UNION {SeasonResponses(origin, y) :
                             origin \in {"historical", "modern"}, y \in Years} :
           SeasonCallReturns(resp)
    \/ \E resp \in HistoricalCareerResponses : HistCareerReturns(resp)
    \/ \E resp \in ModernCareerResponses : ModernMergeReturns(resp)
    \/ ModernMergeRaises
    \/ \E resp \in ModernCareerResponses : ModernAloneReturns(resp)
    \/ CompCallRaises
    \/ CSearchStart
    \/ \E res \in HistoricalSearchResults : CSearchHistoricalReturns(res)
    \/ \E res \in ModernSearchResults : CSearchModernReturns(res)
    \/ CSearchRaises
    \/ \E league \in Leagues : \E season \in SeasonArgs :
          HistoricalGetStandings(league, season)
    \/ \E league \in Leagues : \E season \in SeasonArgs :
          CompositeGetStandings(league, season)
    \/ \E resp \in ScraperStandings : ScraperStandingsReturns(resp)
    \/ ScraperStandingsRaises


(***************************************************************************)
(* search_npb_player_with_smart_selection                                  *)
(***************************************************************************)
Player(id, name, info) == [id |-> id, name_english |-> name, disambiguation_info |-> info]

\* the players a search for "Cabrera" can return: two major-league entries
\* named Alex(ander) Cabrera, a major-league entry of another name, and the
\* register entry
CandidatePool ==
    {Player("br_mlb_cabreal01", "Alex Cabrera", ""),
     Player("br_mlb_cabreal02", "Alexander Cabrera", ""),
     Player("br_mlb_cabrejo01", "Jose Cabrera", ""),
     Player("br_cabrer001ale", "Alex Cabrera", "")}

\* aggregator.search_player returns a list without repeated ids
CandidateLists ==
    {q \in SeqsUpTo(CandidatePool, MaxCand) :
        \A i, j \in 1..Len(q) : q[i].id = q[j].id => i = j}

\* line 173: player.id.startswith("br_mlb_")
IsMlbId(id) == id \in {"br_mlb_cabreal01", "br_mlb_cabreal02", "br_mlb_cabrejo01"}

\* line 179: "cabrera" and "alex" in player.name_english.lower()
IsAlexCabrera(name) == name \in {"Alex Cabrera", "Alexander Cabrera"}

\* lines 181-187: the register entry tried for a major-league Alex Cabrera
RegisterPlayer(player) == Player("br_cabrer001ale", player.name_english, "MLB/NPB player")

\* a task of the gather: its player, what the batting and the pitching request
\* gave, and the pair it returned
NewTask(player) ==
    [player |-> player, batting |-> "pending", pitching |-> "pending",
     done |-> FALSE, has_stats |-> FALSE, failed |-> FALSE]

\* what aggregator.get_player_stats gives a probe: an object with games > 0,
\* nothing usable (None or no games), or an exception
ProbeOutcomes == {"games", "nogames", "raise"}

\* a probe without the except clause: the exception ends the whole workflow
ProbeErrorEscapes == TRUE

\* lines 155-157: except Exception: return (player, False)
ProbeErrorAborts == FALSE

\* lines 143-157: a task after one of its two requests has answered
TaskAfter(t, which, out) ==
    LET u == [t EXCEPT ![which] = out]
    IN IF out = "games" THEN [u EXCEPT !.done = TRUE, !.has_stats = TRUE]
       ELSE IF out = "raise" THEN [u EXCEPT !.done = TRUE, !.failed = TRUE]
       ELSE IF which = "pitching" THEN [u EXCEPT !.done = TRUE]
       ELSE u

\* the part of the text returned: what it says, the players it shows, and the
\* number of players it only counts
Result(kind, listed, also_without) ==
    [kind |-> kind, listed |-> listed, also_without |-> also_without]
NoResult == Result("none", <<>>, 0)

\* lines 164-165
PlayersWith(rs, flag) ==
    LET sel == SelectSeq(rs, LAMBDA r : r.has_stats = flag)
    IN [i \in 1..Len(sel) |-> sel[i].player]

\* lines 172-188: the register entries to check
RegisterCandidates(without) ==
    LET sel == SelectSeq(without,
                         LAMBDA pl : IsMlbId(pl.id) /\ IsAlexCabrera(pl.name_english))
    IN [i \in 1..Len(sel) |-> RegisterPlayer(sel[i])]

\* a decision that takes the first player with stats whenever there is one
DecisionPicksFirst(with_stats, without_stats, all) ==
    IF Len(with_stats) >= 1 THEN Result("player", <<with_stats[1]>>, 0)
    ELSE Result("none_have_stats", all, 0)

\* a decision whose ambiguous answer shows every candidate
DecisionListsAll(with_stats, without_stats, all) ==
    IF Len(with_stats) = 1 THEN Result("player", with_stats, 0)
    ELSE IF Len(with_stats) > 1
         THEN Result("ambiguous", all, 0)
         ELSE Result("none_have_stats", all, 0)

\* lines 200-222: the decision
Decision(with_stats, without_stats, all) ==
    IF Len(with_stats) = 1 THEN Result("player", with_stats, 0)
    ELSE IF Len(with_stats) > 1
         THEN Result("ambiguous", with_stats, Len(without_stats))
         ELSE Result("none_have_stats", all, 0)

SmartIdle ==
    /\ smartPc = "idle"
    /\ players = <<>>
    /\ tasks = <<>>
    /\ additional_tasks = <<>>
    /\ results = <<>>
    /\ smartResult = NoResult

\* lines 126-161: the search answers; no or one player ends the workflow,
\* more start one task per player
SmartSearchReturns(found) ==
    /\ smartPc = "idle"
    /\ players' = found
    /\ IF found = <<>>
       THEN /\ smartResult' = Result("not_found", <<>>, 0)
            /\ smartPc' = "done"
            /\ tasks' = <<>>
       ELSE IF Len(found) = 1
            THEN /\ smartResult' = Result("player", found, 0)
                 /\ smartPc' = "done"
                 /\ tasks' = <<>>
            ELSE /\ tasks' = [i \in 1..Len(found) |-> NewTask(found[i])]
                 /\ smartPc' = "probing"
                 /\ UNCHANGED smartResult
    /\ UNCHANGED <<additional_tasks, results>>
    /\ UNCHANGED notSmart

\* asyncio.gather: every task of the list has returned
AllDone(ts) == \A i \in 1..Len(ts) : ts[i].done

\* lines 143-157: one request of task i answers; an exception that is not
\* caught ends the workflow in the outer except clause (lines 224-225)
ProbeAnswers(i, out) ==
    /\ smartPc \in {"probing", "register"}
    /\ LET ts == IF smartPc = "probing" THEN tasks ELSE additional_tasks
       IN /\ i \in 1..Len(ts)
          /\ ~ts[i].done
          /\ LET which == IF ts[i].batting = "pending" THEN "batting" ELSE "pitching"
                 after == [ts EXCEPT ![i] = TaskAfter(ts[i], which, out)]
             IN IF smartPc = "probing"
                THEN tasks' = after /\ UNCHANGED additional_tasks
                ELSE additional_tasks' = after /\ UNCHANGED tasks
    /\ IF out = "raise" /\ ProbeErrorAborts
       THEN /\ smartPc' = "done"
            /\ smartResult' = Result("error", <<>>, 0)
       ELSE UNCHANGED <<smartPc, smartResult>>
    /\ UNCHANGED <<players, results>>
    /\ UNCHANGED notSmart

\* lines 161-222: the first gather is over; decide, or check register entries
FirstGatherDone ==
    /\ smartPc = "probing"
    /\ AllDone(tasks)
    /\ results' = [i \in 1..Len(tasks) |->
                      [player |-> tasks[i].player, has_stats |-> tasks[i].has_stats]]
    /\ LET with_stats == PlayersWith(results', TRUE)
           without_stats == PlayersWith(results', FALSE)
           to_check == IF with_stats = <<>> THEN RegisterCandidates(without_stats) ELSE <<>>
       IN IF to_check # <<>>
          THEN /\ additional_tasks' = [i \in 1..Len(to_check) |-> NewTask(to_check[i])]
               /\ smartPc' = "register"
               /\ UNCHANGED smartResult
          ELSE /\ smartResult' = Decision(with_stats, without_stats, players)
               /\ smartPc' = "done"
               /\ UNCHANGED additional_tasks
    /\ UNCHANGED <<players, tasks>>
    /\ UNCHANGED notSmart

\* lines 193-222: the gather of the register entries is over; decide
RegisterGatherDone ==
    /\ smartPc = "register"
    /\ AllDone(additional_tasks)
    /\ LET additional == [i \in 1..Len(additional_tasks) |->
                            [player |-> additional_tasks[i].player,
                             has_stats |-> additional_tasks[i].has_stats]]
           with_stats == PlayersWith(results, TRUE) \o PlayersWith(additional, TRUE)
           without_stats == PlayersWith(results, FALSE)
       IN smartResult' = Decision(with_stats, without_stats, players)
    /\ smartPc' = "done"
    /\ UNCHANGED <<players, tasks, additional_tasks, results>>
    /\ UNCHANGED notSmart

SmartNext ==
    \/ \E found \in CandidateLists : SmartSearchReturns(found)
    \/ \E i \in 1..MaxCand : \E out \in ProbeOutcomes : ProbeAnswers(i, out)
    \/ FirstGatherDone
    \/ RegisterGatherDone

(***************************************************************************)
(* cache_utils and the cached page parsers of NPBOfficialSource            *)
(***************************************************************************)
DEFAULT_TTL_HOURS == 24

\* Python values: a string, an object that json cannot serialise (its text is
\* what str() gives for it), a list, None
PyStr(text) == [kind |-> "str", text |-> text, id |-> "", items |-> <<>>]
PyObject(class, id) == [kind |-> "object", text |-> class, id |-> id, items |-> <<>>]
PyList(items) == [kind |-> "list", text |-> "", id |-> "", items |-> items]
PyNone == [kind |-> "None", text |-> "", id |-> "", items |-> <<>>]

\* json.dump(..., default=str) followed by json.load, for one value of a list
JsonItem(v) == IF v.kind = "object" THEN PyStr(v.text) ELSE v

\* json.dump(..., default=str) followed by json.load
JsonRoundTrip(v) ==
    IF v.kind = "list" THEN PyList([i \in 1..Len(v.items) |-> JsonItem(v.items[i])])
    ELSE JsonItem(v)

\* the coroutines that run concurrently on one event loop
Callers == {"c1", "c2"}

\* the two source objects; str(self) names the object
SourceObjects == {"source_1", "source_2"}

\* get_cache_key(func_name, *args): the parts of the key string, func_name and
\* then str(arg) of every argument in order (the MD5 digest of their join
\* stands for the same list)
get_cache_key(func_name, args) == <<func_name>> \o args

\* cache_result, line 71: the arguments of the wrapped method start with self
WrapperKey(func_name, self, args) == get_cache_key(func_name, <<self>> \o args)

\* is_cache_valid(timestamp, ttl_hours)
is_cache_valid(timestamp, ttl_hours) == now - timestamp < ttl_hours

\* get_cached_data(cache_key, ttl_hours) on the files c: the data of a valid
\* entry, else None
get_cached_data(c, cache_key, ttl_hours) ==
    IF cache_key \in DOMAIN c /\ is_cache_valid(c[cache_key].timestamp, ttl_hours)
    THEN Some(c[cache_key].data)
    ELSE NoObject

\* the files after get_cached_data: an expired entry is unlinked
AfterRead(c, cache_key, ttl_hours) ==
    IF cache_key \in DOMAIN c /\ ~is_cache_valid(c[cache_key].timestamp, ttl_hours)
    THEN [k \in DOMAIN c \ {cache_key} |-> c[k]]
    ELSE c

\* save_to_cache(cache_key, data) on the files c; "saved" is history: the
\* value handed to save_to_cache
save_to_cache(c, cache_key, data) ==
    (cache_key :> [timestamp |-> now, data |-> JsonRoundTrip(data), saved |-> data])
        @@ [k \in DOMAIN c \ {cache_key} |-> c[k]]

\* the files after clear_expired_cache(ttl_hours): the valid entries
ExpiredCleared(c, ttl_hours) ==
    [k \in {x \in DOMAIN c : is_cache_valid(c[x].timestamp, ttl_hours)} |-> c[k]]

\* the years search_player goes through, and the leagues of each
SearchPages == <<<<"current_year", "Central">>, <<"current_year", "Pacific">>,
                 <<"previous_year", "Central">>, <<"previous_year", "Pacific">>>>

\* the leagues get_player_stats goes through
StatsPages == <<<<"current_year", "Central">>, <<"current_year", "Pacific">>>>

\* the wrapped method a source method calls, and its explicit arguments for
\* the page idx as strings: url, name, year, league (and stats_type)
FuncOf(op) ==
    IF op = "search_player" THEN "_parse_batting_stats_page"
    ELSE IF op = "get_player_stats" THEN "_parse_stats_from_page"
    ELSE "_parse_player_stats_page"

\* the ttl_hours of the decorator of the wrapped method: 24 for the two of
\* NPBOfficialSource, 0 for BaseballReferenceNPBSource._parse_player_stats_page
TtlOf(op) == IF op = "reference_stats" THEN 0 ELSE DEFAULT_TTL_HOURS

\* str() of the explicit arguments of the wrapped call for the page idx: the
\* url (made of year and league), the name, the year, the league (and
\* stats_type)
PageArgs(op, idx) ==
    IF op = "search_player"
    THEN <<"stats/bat", SearchPages[idx][1], SearchPages[idx][2], "yamamoto",
           SearchPages[idx][1], SearchPages[idx][2]>>
    ELSE IF op = "get_player_stats"
    THEN <<"stats/bat", StatsPages[idx][1], StatsPages[idx][2], "yamamoto",
           StatsPages[idx][1], StatsPages[idx][2], "batting">>
    ELSE <<"register/player.fcgi?id=", "cabrer001ale", "cabrer001ale", "None", "batting">>

\* what a fetch can do: fail in transport, give a page without a matching
\* row, or give a page with one
FetchOutcomes == {"fail", "nomatch", "match"}

\* _fetch_page, lines 58-72: the parsed page, or None after any exception
_fetch_page(outcome) == IF outcome = "fail" THEN "None" ELSE "page"

\* the wrapped methods on a cold cache: lines 189-191 and 350-352 return the
\* empty result for no page; else the matching players / the stats object
ParsePage(op, idx, page, outcome) ==
    IF op = "search_player"
    THEN IF page = "None" \/ outcome = "nomatch" THEN PyList(<<>>)
         ELSE PyList(<<PyObject("NPBPlayer", "npb_yamamoto")>>)
    ELSE IF page = "None" \/ outcome = "nomatch" THEN PyNone
         ELSE PyObject("NPBPlayerStats", "npb_yamamoto")

\* the player ids get_player_stats is called with, as the parts between the
\* underscores that follow "npb_"
PlayerIdInputs == {<<"yamamoto", "g">>, <<"yamamoto">>}

\* get_player_stats, line 311: player_id.replace("npb_", "").rsplit("_", 1)
IdParts(player_id) ==
    IF Len(player_id) < 2 THEN <<player_id>>
    ELSE <<SubSeq(player_id, 1, Len(player_id) - 1), player_id[Len(player_id)]>>

\* the ids of a list of player objects
PlayerIdsOf(found) == {found[i].id : i \in 1..Len(found)}

\* search_player, lines 162-166: the players of the page not found before
RECURSIVE AddUnique(_, _)
AddUnique(found, items) ==
    IF items = <<>> THEN found
    ELSE AddUnique(IF Head(items).id \in PlayerIdsOf(found) THEN found
                   ELSE Append(found, Head(items)),
                   Tail(items))

\* reading player.id raises AttributeError for a value that is no object
RaisesOnId(items) == \E i \in 1..Len(items) : items[i].kind # "object"

\* Python truthiness of a returned value
PyTruthy(v) ==
    \/ v.kind = "object"
    \/ v.kind = "str" /\ v.text # ""
    \/ v.kind = "list" /\ v.items # <<>>

\* the entry of the history for one call of a wrapped method: made when the
\* wrapper has looked into the cache (outcome "pending" while the wrapped
\* method is at its fetch), completed when the wrapped method has returned;
\* "failed" tells that a fetch of the source call has failed so far
LogEntry(op, self, idx, files, key, hit, outcome, cold, value, failed) ==
    [key |-> key, explicit |-> get_cache_key(FuncOf(op), PageArgs(op, idx)),
     self |-> self, hit |-> hit, outcome |-> outcome, cold |-> cold, value |-> value,
     stored |-> key \in DOMAIN files, failed |-> failed]

\* a fetch of the source call with the history log has failed
FailedBefore(log) == log # <<>> /\ log[1].failed

\* the locals of one call of a source method: its place, the page its loop is
\* at, the players found so far, the value returned and the history
Frame(c) ==
    [pc |-> srcPc[c], idx |-> srcIdx[c], players |-> srcPlayers[c],
     result |-> srcResult[c], log |-> srcLog[c]]

SrcIdle ==
    /\ now = 0
    /\ cache = <<>>
    /\ srcPc = [c \in Callers |-> "idle"]
    /\ srcSelf = [c \in Callers |-> "none"]
    /\ srcOp = [c \in Callers |-> "none"]
    /\ srcIdx = [c \in Callers |-> 0]
    /\ srcPlayers = [c \in Callers |-> <<>>]
    /\ srcResult = [c \in Callers |-> NoObject]
    /\ srcLog = [c \in Callers |-> <<>>]
    /\ srcOps = 0

\* search_player, lines 162-170, after the page f.idx gave value
SearchAfterPage(f, value) ==
    IF RaisesOnId(value.items)
    THEN [f EXCEPT !.pc = "raised", !.result = NoObject]
    ELSE LET found == AddUnique(f.players, value.items)
             yearEnds == SearchPages[f.idx][2] = "Pacific"
         IN  IF (yearEnds /\ found # <<>>) \/ f.idx = Len(SearchPages)
             THEN [f EXCEPT !.players = found, !.pc = "done",
                            !.result = Some(PyList(found))]
             ELSE [f EXCEPT !.players = found, !.idx = @ + 1]

\* get_player_stats, lines 329-332, after the page f.idx gave value
StatsAfterPage(f, value) ==
    IF PyTruthy(value) THEN [f EXCEPT !.pc = "done", !.result = Some(value)]
    ELSE IF f.idx = Len(StatsPages)
    THEN [f EXCEPT !.pc = "done", !.result = Some(PyNone)]
    ELSE [f EXCEPT !.idx = @ + 1]

\* BaseballReferenceNPBSource.get_player_stats, line 340: the value of the
\* wrapped call is returned
ReferenceAfterPage(f, value) == [f EXCEPT !.pc = "done", !.result = Some(value)]

AfterPage(op, f, value) ==
    IF op = "search_player" THEN SearchAfterPage(f, value)
    ELSE IF op = "get_player_stats" THEN StatsAfterPage(f, value)
    ELSE ReferenceAfterPage(f, value)

\* a call runs without suspending up to its next fetch or its return: while
\* cache_result.async_wrapper (lines 71-76) finds a valid entry the data is
\* returned and the loop of the method goes on; when it finds none
\* (get_cached_data has unlinked an expired entry) the wrapped method is
\* called and awaits its fetch
RECURSIVE RunToFetch(_, _, _, _)
RunToFetch(op, self, f, files) ==
    IF f.pc # "page" THEN [frame |-> f, files |-> files]
    ELSE LET key == WrapperKey(FuncOf(op), self, PageArgs(op, f.idx))
             cached_data == get_cached_data(files, key, TtlOf(op))
         IN  IF cached_data # NoObject
             THEN RunToFetch(op, self,
                      AfterPage(op,
                          [f EXCEPT !.log =
                              <<LogEntry(op, self, f.idx, files, key, TRUE, "none",
                                         files[key].saved, cached_data[1],
                                         FailedBefore(f.log))>>],
                          cached_data[1]),
                      files)
             ELSE [frame |-> [f EXCEPT !.pc = "fetching",
                                       !.log =
                                           <<LogEntry(op, self, f.idx, files, key, FALSE,
                                                      "pending", PyNone, PyNone,
                                                      FailedBefore(f.log))>>],
                   files |-> AfterRead(files, key, TtlOf(op))]

\* the caller c goes on from the frame f over the files of the cache
Runs(c, op, self, f, files) ==
    LET run == RunToFetch(op, self, f, files)
    IN  /\ srcPc' = [srcPc EXCEPT ![c] = run.frame.pc]
        /\ srcIdx' = [srcIdx EXCEPT ![c] = run.frame.idx]
        /\ srcPlayers' = [srcPlayers EXCEPT ![c] = run.frame.players]
        /\ srcResult' = [srcResult EXCEPT ![c] = run.frame.result]
        /\ srcLog' = [srcLog EXCEPT ![c] = run.frame.log]
        /\ srcSelf' = [srcSelf EXCEPT ![c] = self]
        /\ srcOp' = [srcOp EXCEPT ![c] = op]
        /\ cache' = run.files

\* the frame of a call that has just been made, at the first page of its loop
NewFrame == [pc |-> "page", idx |-> 1, players |-> <<>>, result |-> NoObject,
             log |-> <<>>]

\* the clock advances
Tick ==
    /\ now + DEFAULT_TTL_HOURS <= MaxClock
    /\ now' = now + DEFAULT_TTL_HOURS
    /\ UNCHANGED <<cache, srcPc, srcSelf, srcOp, srcIdx, srcPlayers, srcResult, srcLog,
                   srcOps>>
    /\ UNCHANGED notSrc

\* cache_utils.clear_cache(): every file is unlinked
clear_cache ==
    /\ cache' = <<>>
    /\ UNCHANGED <<now, srcPc, srcSelf, srcOp, srcIdx, srcPlayers, srcResult, srcLog,
                   srcOps>>
    /\ UNCHANGED notSrc

\* cache_utils.clear_expired_cache(ttl_hours): the entries that are not valid
\* for ttl_hours are unlinked
clear_expired_cache(ttl_hours) ==
    /\ cache' = ExpiredCleared(cache, ttl_hours)
    /\ UNCHANGED <<now, srcPc, srcSelf, srcOp, srcIdx, srcPlayers, srcResult, srcLog,
                   srcOps>>
    /\ UNCHANGED notSrc

\* the caller c calls search_player(name) on a source object
SourceSearchStart(c, self) ==
    /\ srcPc[c] \in {"idle", "done", "raised"}
    /\ srcOps < MaxOps
    /\ srcOps' = srcOps + 1
    /\ Runs(c, "search_player", self, NewFrame, cache)
    /\ UNCHANGED now
    /\ UNCHANGED notSrc

\* the caller c calls get_player_stats(player_id) on a source object; an id
\* of fewer than two parts returns None at once
SourceStatsStart(c, self, player_id) ==
    /\ srcPc[c] \in {"idle", "done", "raised"}
    /\ srcOps < MaxOps
    /\ srcOps' = srcOps + 1
    /\ IF Len(IdParts(player_id)) < 2
       THEN Runs(c, "get_player_stats", self,
                 [NewFrame EXCEPT !.pc = "done", !.idx = 0, !.result = Some(PyNone)],
                 cache)
       ELSE Runs(c, "get_player_stats", self, NewFrame, cache)
    /\ UNCHANGED now
    /\ UNCHANGED notSrc

\* the caller c calls get_player_stats(player_id) on a Baseball-Reference
\* source object
ReferenceStatsStart(c, self) ==
    /\ srcPc[c] \in {"idle", "done", "raised"}
    /\ srcOps < MaxOps
    /\ srcOps' = srcOps + 1
    /\ Runs(c, "reference_stats", self, NewFrame, cache)
    /\ UNCHANGED now
    /\ UNCHANGED notSrc

\* the fetch of the caller c is over: the wrapped method parses the page and
\* returns, cache_result.async_wrapper (lines 79-85) saves a result that is
\* not None, and the call runs on to its next fetch or its return
PageFetched(c, outcome) ==
    /\ srcPc[c] = "fetching"
    /\ LET op == srcOp[c]
           self == srcSelf[c]
           f == Frame(c)
           key == WrapperKey(FuncOf(op), self, PageArgs(op, f.idx))
           result == ParsePage(op, f.idx, _fetch_page(outcome), outcome)
           files == IF result # PyNone THEN save_to_cache(cache, key, result) ELSE cache
           entry == [f.log[1] EXCEPT !.outcome = outcome, !.cold = result,
                                     !.value = result,
                                     !.failed = @ \/ outcome = "fail"]
           returned == [f EXCEPT !.pc = "page", !.log = <<entry>>]
       IN  Runs(c, op, self, AfterPage(op, returned, result), files)
    /\ UNCHANGED <<now, srcOps>>
    /\ UNCHANGED notSrc

SourceNext ==
    \/ Tick
    \/ clear_cache
    \/ \E ttl_hours \in {0, DEFAULT_TTL_HOURS} : clear_expired_cache(ttl_hours)
    \/ \E c \in Callers, self \in SourceObjects : SourceSearchStart(c, self)
    \/ \E c \in Callers, self \in SourceObjects, player_id \in PlayerIdInputs :
           SourceStatsStart(c, self, player_id)
    \/ \E c \in Callers, self \in SourceObjects : ReferenceStatsStart(c, self)
    \/ \E c \in Callers, outcome \in FetchOutcomes : PageFetched(c, outcome)

(***************************************************************************)
(* name_utils: strings are sequences of one-character strings              *)
(***************************************************************************)
\* the characters of the names handed in: letters, an upper-case letter, the
\* space, a punctuation mark and the comma
NameChars == {"o", "u", "h", "i", "A", " ", "!", ","}

\* str.lower() of a character
LowerChar(c) == IF c = "A" THEN "a" ELSE c

\* str.lower()
Lower(str) == [i \in 1..Len(str) |-> LowerChar(str[i])]

\* the characters the pattern [^\w\s-] leaves: word characters, whitespace
\* and the hyphen
IsKept(c) == c \notin {"!", ","}

\* str.strip()
RECURSIVE Strip(_)
Strip(str) ==
    IF str = <<>> THEN str
    ELSE IF Head(str) = " " THEN Strip(Tail(str))
    ELSE IF str[Len(str)] = " " THEN Strip(SubSeq(str, 1, Len(str) - 1))
    ELSE str

\* re.sub(r'[^\w\s-]', '', str)
RemoveSpecial(str) == SelectSeq(str, IsKept)

\* re.sub(r'\s+', ' ', str)
RECURSIVE CollapseSpaces(_)
CollapseSpaces(str) ==
    IF Len(str) < 2 THEN str
    ELSE IF str[1] = " " /\ str[2] = " " THEN CollapseSpaces(Tail(str))
    ELSE <<Head(str)>> \o CollapseSpaces(Tail(str))

\* pat is at the position i of str
MatchesAt(str, pat, i) ==
    i + Len(pat) - 1 <= Len(str) /\ SubSeq(str, i, i + Len(pat) - 1) = pat

\* pat in str
Contains(str, pat) == \E i \in 1..Len(str) : MatchesAt(str, pat, i)

\* str.replace(pat, new): the occurrences from the left that do not overlap
RECURSIVE Replace(_, _, _)
Replace(str, pat, new) ==
    IF str = <<>> THEN str
    ELSE IF MatchesAt(str, pat, 1)
    THEN new \o Replace(SubSeq(str, Len(pat) + 1, Len(str)), pat, new)
    ELSE <<Head(str)>> \o Replace(Tail(str), pat, new)

\* ROMANIZATION_VARIANTS, in the order of the dictionary
ROMANIZATION_VARIANTS ==
    << [variant |-> <<"o","u">>, replacements |-> << <<"o">>, <<"o","h">>, <<"o","o">> >>],
       [variant |-> <<"o","o">>, replacements |-> << <<"o">>, <<"o","h">>, <<"o","u">> >>],
       [variant |-> <<"o","h">>, replacements |-> << <<"o">>, <<"o","o">>, <<"o","u">> >>],
       [variant |-> <<"u","u">>, replacements |-> << <<"u">>, <<"u","h">> >>],
       [variant |-> <<"e","i">>, replacements |-> << <<"e">> >>],
       [variant |-> <<"i","i">>, replacements |-> << <<"i">> >>],
       [variant |-> <<"s","h","i">>, replacements |-> << <<"s","i">> >>],
       [variant |-> <<"c","h","i">>, replacements |-> << <<"t","i">> >>],
       [variant |-> <<"t","s","u">>, replacements |-> << <<"t","u">> >>],
       [variant |-> <<"f","u">>, replacements |-> << <<"h","u">> >>],
       [variant |-> <<"j","i">>, replacements |-> << <<"z","i">>, <<"d","i">> >>],
       [variant |-> <<"z","u">>, replacements |-> << <<"d","u">> >>],
       [variant |-> <<"s","h","a">>, replacements |-> << <<"s","y","a">> >>],
       [variant |-> <<"s","h","u">>, replacements |-> << <<"s","y","u">> >>],
       [variant |-> <<"s","h","o">>, replacements |-> << <<"s","y","o">> >>],
       [variant |-> <<"c","h","a">>, replacements |-> << <<"t","y","a">> >>],
       [variant |-> <<"c","h","u">>, replacements |-> << <<"t","y","u">> >>],
       [variant |-> <<"c","h","o">>, replacements |-> << <<"t","y","o">> >>],
       [variant |-> <<"j","a">>, replacements |-> << <<"z","y","a">>, <<"d","y","a">> >>],
       [variant |-> <<"j","u">>, replacements |-> << <<"z","y","u">>, <<"d","y","u">> >>],
       [variant |-> <<"j","o">>, replacements |-> << <<"z","y","o">>, <<"d","y","o">> >> ] >>

\* normalize_name, lines 59-62: the entries from the k-th on applied in turn,
\* each with its first replacement
RECURSIVE ApplyRomanization(_, _)
ApplyRomanization(str, k) ==
    IF k > Len(ROMANIZATION_VARIANTS) THEN str
    ELSE ApplyRomanization(
            Replace(str, ROMANIZATION_VARIANTS[k].variant,
                    ROMANIZATION_VARIANTS[k].replacements[1]),
            k + 1)

\* normalize_name(name)
normalize_name(name) ==
    ApplyRomanization(CollapseSpaces(RemoveSpecial(Strip(Lower(name)))), 1)

\* str.split(): the words between runs of whitespace
RECURSIVE Split(_)
Split(str) ==
    IF str = <<>> THEN <<>>
    ELSE IF Head(str) = " " THEN Split(Tail(str))
    ELSE LET stops == {i \in 1..Len(str) : str[i] = " "}
             end == IF stops = {} THEN Len(str) + 1
                    ELSE CHOOSE i \in stops : \A j \in stops : i <= j
         IN  <<SubSeq(str, 1, end - 1)>> \o Split(SubSeq(str, end, Len(str)))

\* str.split(','): the pieces between commas, empty ones included
RECURSIVE SplitComma(_)
SplitComma(str) ==
    LET stops == {i \in 1..Len(str) : str[i] = ","}
    IN  IF stops = {} THEN <<str>>
        ELSE LET end == CHOOSE i \in stops : \A j \in stops : i <= j
             IN  <<SubSeq(str, 1, end - 1)>> \o SplitComma(SubSeq(str, end + 1, Len(str)))

\* generate_name_variants, lines 84-89: the replace-all variants of the
\* normalized form that is given
RomanizationVariantsOf(normalized) ==
    {Replace(normalized, ROMANIZATION_VARIANTS[k].variant,
             ROMANIZATION_VARIANTS[k].replacements[r]) :
        <<k, r>> \in {kr \in (1..Len(ROMANIZATION_VARIANTS)) \X (1..3) :
                         /\ kr[2] <= Len(ROMANIZATION_VARIANTS[kr[1]].replacements)
                         /\ Contains(normalized, ROMANIZATION_VARIANTS[kr[1]].variant)}}

\* generate_name_variants, lines 92-96: the two forms with the words swapped
SwappedOf(name) ==
    LET parts == Split(name)
    IN  IF Len(parts) = 2
        THEN LET swapped == parts[2] \o <<" ">> \o parts[1]
             IN  {swapped, normalize_name(swapped)}
        ELSE {}

\* generate_name_variants without the name itself
generate_name_variantsNoName(name) ==
    LET normalized == normalize_name(name)
    IN  (IF normalized # Lower(name) THEN {normalized} ELSE {})
            \cup RomanizationVariantsOf(normalized) \cup SwappedOf(name)

\* generate_name_variants(name), as the set the list is made of
generate_name_variants(name) ==
    LET normalized == normalize_name(name)
    IN  {name} \cup (IF normalized # Lower(name) THEN {normalized} ELSE {})
            \cup RomanizationVariantsOf(normalized) \cup SwappedOf(name)

\* match_name, lines 144-158: the "Last, First" forms of the candidate
CommaMatch(search_name, candidate_name) ==
    /\ Contains(candidate_name, <<",">>)
    /\ LET parts == SplitComma(candidate_name)
       IN  /\ Len(parts) = 2
           /\ LET last_name == Strip(parts[1])
                  first_name == Strip(parts[2])
              IN  normalize_name(search_name) \in
                     {normalize_name(last_name), normalize_name(first_name),
                      normalize_name(first_name \o <<" ">> \o last_name)}

\* match_name, lines 169-177: a search of one word matches a word of the
\* candidate
PartialMatch(search_name, candidate_name) ==
    LET search_parts == Split(search_name)
        candidate_parts == Split(SelectSeq(candidate_name, LAMBDA c : c # ","))
    IN  /\ Len(search_parts) = 1
        /\ \E i \in 1..Len(candidate_parts) :
              normalize_name(candidate_parts[i]) = normalize_name(search_parts[1])

\* match_name(search_name, candidate_name, strict)
match_name(search_name, candidate_name, strict) ==
    IF strict THEN normalize_name(search_name) = normalize_name(candidate_name)
    ELSE \/ normalize_name(search_name) = normalize_name(candidate_name)
         \/ CommaMatch(search_name, candidate_name)
         \/ normalize_name(candidate_name) \in generate_name_variants(search_name)
         \/ PartialMatch(search_name, candidate_name)

\* the names of at most MaxNameLen characters
Names == UNION {[1..n -> NameChars] : n \in 0..MaxNameLen}

NameIdle ==
    /\ nmPc = "idle"
    /\ nmName = <<>>
    /\ nmStrict = FALSE
    /\ nmNormalized = <<>>
    /\ nmVariants = {}
    /\ nmMatch = FALSE

\* a caller normalizes the name
NormalizeName ==
    /\ nmPc = "start"
    /\ nmNormalized' = normalize_name(nmName)
    /\ nmPc' = "normalized"
    /\ UNCHANGED <<nmName, nmStrict, nmVariants, nmMatch>>
    /\ UNCHANGED notNames

\* a caller asks for the variants of the name
GenerateVariants ==
    /\ nmPc = "normalized"
    /\ nmVariants' = generate_name_variants(nmName)
    /\ nmPc' = "variants"
    /\ UNCHANGED <<nmName, nmStrict, nmNormalized, nmMatch>>
    /\ UNCHANGED notNames

\* a caller matches the normalized name against the name
MatchName(strict) ==
    /\ nmPc = "variants"
    /\ nmStrict' = strict
    /\ nmMatch' = match_name(nmNormalized, nmName, strict)
    /\ nmPc' = "matched"
    /\ UNCHANGED <<nmName, nmNormalized, nmVariants>>
    /\ UNCHANGED notNames

NamesNext ==
    \/ NormalizeName
    \/ GenerateVariants
    \/ \E strict \in BOOLEAN : MatchName(strict)

(***************************************************************************)
(* The producers of batting season records; rates are integer thousandths  *)
(***************************************************************************)
\* an optional count of a row or of a dictionary: missing, or 0..MaxCount
OptCounts == {NoObject} \cup {Some(n) : n \in 0..MaxCount}

\* the rate cells of a page, in thousandths
RateCells == {0, 100, 200, 250, 333}

\* x or 0
OrZero(x) == IF x = NoObject THEN 0 ELSE x[1]

\* the record of a batting season, as far as the rates go: OBP and SLG in
\* thousandths, the OPS as a float
BattingRecord(producer, at_bats, obp, slg, ops) ==
    [producer |-> producer, at_bats |-> at_bats, on_base_percentage |-> obp,
     slugging_percentage |-> slg, ops |-> ops]

\* the data rows of a stats table: the AB cell and the BA, SLG and OBP cells
TableRows ==
    [at_bats : 0..MaxCount, batting_average : RateCells, slg : RateCells,
     obp : RateCells]

\* the tables handed to the scraper: without data rows, with one row, and with
\* two rows of a hitless batter
Tables ==
    {<<>>} \cup {<<r>> : r \in TableRows}
           \cup {<<r, t>> : r, t \in {x \in TableRows : x.at_bats = MaxCount
                                                       /\ x.batting_average = 0}}

\* NPBOfficialScraper._extract_batting_stats: one record per data row of the
\* table, in the order of the rows; the cells of a row are read with safe_int /
\* safe_float, and "ops" is set, to the float sum of the OBP and the SLG cell,
\* if the average or the OBP is positive
_extract_batting_stats(rows) ==
    [i \in 1..Len(rows) |->
        BattingRecord("npb_official_scraper", Some(rows[i].at_bats), Some(rows[i].obp),
                      Some(rows[i].slg),
                      IF rows[i].batting_average > 0 \/ rows[i].obp > 0
                      THEN Some(CellSum(rows[i].obp, rows[i].slg))
                      ELSE NoObject)]

\* NPBOfficialSource._parse_batting_stats: every value is the cell of its
\* column, None for a missing column or an empty cell
_parse_batting_stats(at_bats, obp, slg, ops) ==
    BattingRecord("npb_official_source", at_bats, obp, slg,
                  IF ops = NoObject THEN NoObject ELSE Some(PyFloat(ops[1], 0)))

\* BaseballReferenceNPBSource._create_batting_stats_from_dict
_create_batting_stats_from_dict(at_bats, hits, walks, doubles, triples, home_runs) ==
    LET ab == at_bats # NoObject /\ at_bats[1] # 0
        obp == IF hits # NoObject /\ walks # NoObject /\ ab /\ at_bats[1] + walks[1] > 0
               THEN Some(RoundedRate(hits[1] + walks[1], at_bats[1] + walks[1], 1000))
               ELSE NoObject
        total_bases == OrZero(hits) + OrZero(doubles) + 2 * OrZero(triples)
                         + 3 * OrZero(home_runs)
        slg == IF ab /\ at_bats[1] > 0
               THEN Some(RoundedRate(total_bases, at_bats[1], 1000))
               ELSE NoObject
    IN  BattingRecord("baseball_reference", at_bats, obp, slg,
                      IF obp # NoObject /\ slg # NoObject
                      THEN Some(PyFloat(obp[1] + slg[1], 0))
                      ELSE NoObject)

BatIdle ==
    /\ btPc = "idle"
    /\ btRecord = <<>>

\* the scraper of the NPB site extracts the rows of a table
ScraperExtracts(rows) ==
    /\ btPc = "start"
    /\ btRecord' = _extract_batting_stats(rows)
    /\ btPc' = "done"
    /\ UNCHANGED notBat

\* the source of the NPB site parses a row
SourceParses(at_bats, obp, slg, ops) ==
    /\ btPc = "start"
    /\ btRecord' = <<_parse_batting_stats(at_bats, obp, slg, ops)>>
    /\ btPc' = "done"
    /\ UNCHANGED notBat

\* the Baseball-Reference source makes a record from a dictionary of counts
ReferenceCreates(at_bats, hits, walks, doubles, triples, home_runs) ==
    /\ btPc = "start"
    /\ btRecord' = <<_create_batting_stats_from_dict(at_bats, hits, walks, doubles,
                                                      triples, home_runs)>>
    /\ btPc' = "done"
    /\ UNCHANGED notBat

BatNext ==
    \/ \E rows \in Tables : ScraperExtracts(rows)
    \/ \E at_bats \in OptCounts, obp, slg \in {NoObject} \cup {Some(c) : c \in RateCells},
          ops \in {NoObject} \cup {Some(c + d) : c, d \in RateCells} :
           SourceParses(at_bats, obp, slg, ops)
    \/ \E at_bats, hits, walks, home_runs \in OptCounts,
          doubles, triples \in {NoObject, Some(1)} :
           ReferenceCreates(at_bats, hits, walks, doubles, triples, home_runs)

(***************************************************************************)
(* Rate limiting: BaseScraper._rate_limit / fetch_page and                 *)
(* BaseballReferenceNPBSource._rate_limit / _fetch_page; times are in half *)
(* seconds                                                                 *)
(***************************************************************************)
\* BaseScraper.rate_limit_delay, 0.5 seconds
rate_limit_delay == 1

\* BaseballReferenceNPBSource.request_delay, 3.0 seconds
request_delay == 6

LimitedKinds == {"scraper", "baseball_reference"}

\* the minimum delay the instance is configured with
DelayOf(kind) == IF kind = "scraper" THEN rate_limit_delay ELSE request_delay

\* _rate_limit up to its await: the time the caller has to sleep, 0 for none.
\* BaseScraper compares with the field that starts at 0.0;
\* BaseballReferenceNPBSource skips the test while the field is None (or 0)
SleepNeeded(kind, clock, last) ==
    IF kind = "scraper"
    THEN IF clock - last[1] < rate_limit_delay
         THEN rate_limit_delay - (clock - last[1]) ELSE 0
    ELSE IF last # NoObject /\ last[1] # 0 /\ clock - last[1] < request_delay
         THEN request_delay - (clock - last[1]) ELSE 0

LimIdle ==
    /\ limKind = "none"
    /\ limClock = 0
    /\ last_request_time = NoObject
    /\ limPc = [c \in Callers |-> "idle"]
    /\ limWake = [c \in Callers |-> 0]
    /\ limRequests = <<>>

\* time passes
LimTick ==
    /\ limKind \in LimitedKinds
    /\ limClock < MaxTime
    /\ limClock' = limClock + 1
    /\ UNCHANGED <<limKind, last_request_time, limPc, limWake, limRequests>>
    /\ UNCHANGED notLim

\* a caller calls fetch_page and runs _rate_limit to its await: with no
\* sleep needed it stamps last_request_time and sends the request at once
FetchEnter(c) ==
    /\ limKind \in LimitedKinds
    /\ limPc[c] = "idle"
    /\ Len(limRequests)
          + Cardinality({d \in Callers : limPc[d] = "sleeping"}) < MaxRequests
    /\ LET delay == SleepNeeded(limKind, limClock, last_request_time)
       IN  IF delay > 0
           THEN /\ limPc' = [limPc EXCEPT ![c] = "sleeping"]
                /\ limWake' = [limWake EXCEPT ![c] = limClock + delay]
                /\ UNCHANGED <<last_request_time, limRequests>>
           ELSE /\ limPc' = [limPc EXCEPT ![c] = "requesting"]
                /\ last_request_time' = Some(limClock)
                /\ limRequests' = Append(limRequests, [caller |-> c, at |-> limClock])
                /\ UNCHANGED limWake
    /\ UNCHANGED <<limKind, limClock>>
    /\ UNCHANGED notLim

\* the sleep of a caller ends: it stamps last_request_time and sends the
\* request
FetchWakes(c) ==
    /\ limPc[c] = "sleeping"
    /\ limClock >= limWake[c]
    /\ limPc' = [limPc EXCEPT ![c] = "requesting"]
    /\ last_request_time' = Some(limClock)
    /\ limRequests' = Append(limRequests, [caller |-> c, at |-> limClock])
    /\ UNCHANGED <<limKind, limClock, limWake>>
    /\ UNCHANGED notLim

\* the response (or the error) of a request arrives, fetch_page returns
FetchReturns(c) ==
    /\ limPc[c] = "requesting"
    /\ limPc' = [limPc EXCEPT ![c] = "idle"]
    /\ UNCHANGED <<limKind, limClock, last_request_time, limWake, limRequests>>
    /\ UNCHANGED notLim

LimNext ==
    \/ LimTick
    \/ \E c \in Callers : FetchEnter(c)
    \/ \E c \in Callers : FetchWakes(c)
    \/ \E c \in Callers : FetchReturns(c)

(***************************************************************************)
(* ScraperProvider: the calls share self.npb_scraper and self.br_scraper,  *)
(* each a BaseScraper with one session field                               *)
(***************************************************************************)
Scrapers == {"npb_scraper", "br_scraper"}

ProvIdle ==
    /\ clients = <<>>
    /\ session = [sc \in Scrapers |-> 0]
    /\ provPc = [c \in Callers |-> "idle"]
    /\ provScraper = [c \in Callers |-> "none"]
    /\ provFetches = [c \in Callers |-> 0]
    /\ provLog = <<>>

\* BaseScraper.__aenter__ of the scraper sc for the caller c: a new client
\* replaces the session field
Enter(c, sc) ==
    /\ clients' = Append(clients, "open")
    /\ session' = [session EXCEPT ![sc] = Len(clients) + 1]
    /\ provPc' = [provPc EXCEPT ![c] = "inside"]
    /\ provScraper' = [provScraper EXCEPT ![c] = sc]
    /\ provFetches' = [provFetches EXCEPT ![c] = 0]
    /\ UNCHANGED provLog

\* search_player / get_player_stats, lines 32 and 78: "async with
\* self.npb_scraper"
ProviderCallStarts(c) ==
    /\ provPc[c] = "idle"
    /\ Enter(c, "npb_scraper")
    /\ UNCHANGED notProv

\* fetch_page, lines 85-88: the request goes out on the client the session
\* field holds now
ProviderFetchSends(c) ==
    /\ provPc[c] = "inside"
    /\ provFetches[c] < MaxFetches
    /\ session[provScraper[c]] # 0
    /\ provLog' = Append(provLog,
                        [caller |-> c, client |-> session[provScraper[c]],
                         state |-> clients[session[provScraper[c]]]])
    /\ provPc' = [provPc EXCEPT ![c] = "fetching"]
    /\ provFetches' = [provFetches EXCEPT ![c] = @ + 1]
    /\ UNCHANGED <<clients, session, provScraper>>
    /\ UNCHANGED notProv

\* fetch_page returns the page, or None after an error
ProviderFetchReturns(c) ==
    /\ provPc[c] = "fetching"
    /\ provPc' = [provPc EXCEPT ![c] = "inside"]
    /\ UNCHANGED <<clients, session, provScraper, provFetches, provLog>>
    /\ UNCHANGED notProv

\* BaseScraper.__aexit__: the client the session field holds now is closed;
\* with results from the NPB site, or after the Baseball-Reference block,
\* the method returns, else it goes on to the Baseball-Reference block
ProviderBlockExits(c, found) ==
    /\ provPc[c] = "inside"
    /\ provFetches[c] >= 1
    /\ clients' = IF session[provScraper[c]] # 0
                  THEN [clients EXCEPT ![session[provScraper[c]]] = "closed"]
                  ELSE clients
    /\ provPc' = [provPc EXCEPT ![c] =
                     IF found \/ provScraper[c] = "br_scraper" THEN "returned"
                     ELSE "fallback"]
    /\ UNCHANGED <<session, provScraper, provFetches, provLog>>
    /\ UNCHANGED notProv

\* lines 45 and 167: "async with self.br_scraper"
ProviderFallsBack(c) ==
    /\ provPc[c] = "fallback"
    /\ Enter(c, "br_scraper")
    /\ UNCHANGED notProv

ProvNext ==
    \/ \E c \in Callers : ProviderCallStarts(c)
    \/ \E c \in Callers : ProviderFetchSends(c)
    \/ \E c \in Callers : ProviderFetchReturns(c)
    \/ \E c \in Callers, found \in BOOLEAN : ProviderBlockExits(c, found)
    \/ \E c \in Callers : ProviderFallsBack(c)

(***************************************************************************)
(* The specifications, one for each component                              *)
(***************************************************************************)
InitNames ==
    /\ AggInit /\ sources = Providers /\ CompIdle /\ SmartIdle /\ SrcIdle /\ BatIdle /\ LimIdle /\ ProvIdle
    /\ nmPc = "start"
    /\ nmName \in Names
    /\ nmStrict = FALSE
    /\ nmNormalized = <<>>
    /\ nmVariants = {}
    /\ nmMatch = FALSE

\* the name utilities applied to one name
SpecNames == InitNames /\ [][NamesNext]_vars

InitBat ==
    /\ AggInit /\ sources = Providers /\ CompIdle /\ SmartIdle /\ SrcIdle /\ NameIdle /\ LimIdle /\ ProvIdle
    /\ btPc = "start"
    /\ btRecord = <<>>

\* one producer of batting records is called
SpecBat == InitBat /\ [][BatNext]_vars

InitLim ==
    /\ AggInit /\ sources = Providers /\ CompIdle /\ SmartIdle /\ SrcIdle /\ NameIdle /\ BatIdle /\ ProvIdle
    /\ limKind \in LimitedKinds
    /\ limClock = DelayOf(limKind)
    /\ last_request_time = IF limKind = "scraper" THEN Some(0) ELSE NoObject
    /\ limPc = [c \in Callers |-> "idle"]
    /\ limWake = [c \in Callers |-> 0]
    /\ limRequests = <<>>

\* the callers of one rate-limited instance
SpecLim == InitLim /\ [][LimNext]_vars

InitProv ==
    AggInit /\ sources = Providers /\ CompIdle /\ SmartIdle /\ SrcIdle /\ NameIdle /\ BatIdle /\ LimIdle /\ ProvIdle

\* the concurrent calls on one ScraperProvider
SpecProv == InitProv /\ [][ProvNext]_vars

InitSource == AggInit /\ sources = Providers /\ CompIdle /\ SmartIdle /\ SrcIdle /\ NameIdle /\ BatIdle /\ LimIdle /\ ProvIdle

\* the calls made on the source objects, over one cache directory
SpecSource == InitSource /\ [][SourceNext]_vars

InitAgg == AggInit /\ CompIdle /\ SmartIdle /\ SrcIdle /\ NameIdle /\ BatIdle /\ LimIdle /\ ProvIdle

InitSmart == AggInit /\ sources = Providers /\ CompIdle /\ SmartIdle /\ SrcIdle /\ NameIdle /\ BatIdle /\ LimIdle /\ ProvIdle

SpecSmart == InitSmart /\ [][SmartNext]_vars

(***************************************************************************)
(* Properties of the disambiguation workflow                               *)
(***************************************************************************)
\* a probed player has recorded stats: a request answered with games > 0
HasRecordedStats(t) == t.batting = "games" \/ t.pitching = "games"

\* the players of the tasks that found recorded stats, in task order
ConfirmedOf(ts) ==
    LET sel == SelectSeq(ts, HasRecordedStats)
    IN [i \in 1..Len(sel) |-> sel[i].player]

\* the workflow went through disambiguation and has returned
Disambiguated == smartPc = "done" /\ Len(players) > 1

\* C5: after a search with more than one candidate, exactly one candidate
\* with recorded stats is returned alone, as a plain player answer; two or more
\* candidates with recorded stats are all returned, in the answer that asks to
\* choose by id.
C5_DisambiguationDecision ==
    Disambiguated =>
        LET confirmed == ConfirmedOf(tasks)
        IN /\ Len(confirmed) = 1 =>
                 smartResult.kind = "player" /\ smartResult.listed = confirmed
           /\ Len(confirmed) >= 2 =>
                 smartResult.kind = "ambiguous" /\ smartResult.listed = confirmed

\* C5 witness: three candidates of which only the second has recorded stats,
\* and that one is the answer.
C5_Witness ==
    /\ Disambiguated /\ Len(players) = 3
    /\ ConfirmedOf(tasks) = <<players[2]>>
    /\ smartResult = Result("player", <<players[2]>>, 0)

\* C6 as stated: more than one candidate and none with recorded stats gives
\* the answer "none have stats" with the full candidate list.
C6_Original ==
    (Disambiguated /\ ConfirmedOf(tasks) = <<>>) =>
        smartResult.kind = "none_have_stats" /\ smartResult.listed = players

\* the answers that ask the caller to choose by id
AsksToChoose == smartResult.kind \in {"ambiguous", "none_have_stats"}

\* C7 as stated: an answer that asks to choose by id shows every candidate of
\* the search.
C7_Original ==
    (Disambiguated /\ AsksToChoose) =>
        \A i \in 1..Len(players) :
            \E k \in 1..Len(smartResult.listed) : smartResult.listed[k] = players[i]

\* C7 amended: the answer for two or more players with stats shows exactly
\* the players found to have recorded stats (the candidates, else the register
\* entries) and gives the candidates without stats as a number only; the
\* answer "none have stats" shows the full candidate list.
C7_AmbiguousCarries ==
    Disambiguated =>
        /\ smartResult.kind = "ambiguous" =>
              /\ smartResult.listed = ConfirmedOf(tasks) \o ConfirmedOf(additional_tasks)
              /\ Len(smartResult.listed) >= 2
              /\ smartResult.also_without = Len(players) - Len(ConfirmedOf(tasks))
        /\ smartResult.kind = "none_have_stats" => smartResult.listed = players

\* C7 witness: two candidates have recorded stats, a third has none and is
\* only counted.
C7_Witness ==
    /\ Disambiguated /\ smartResult.kind = "ambiguous"
    /\ Len(players) = 3 /\ Len(ConfirmedOf(tasks)) = 2
    /\ smartResult.also_without = 1

\* C8: a provider error in one candidate's probe gives that candidate
\* has_stats = false and nothing else: the workflow does not end in its error
\* answer, the gather waits for every task, and every pair of the gather
\* carries what the candidate's own requests found.
C8_ProbeErrorIsolated ==
    /\ smartResult.kind # "error"
    /\ \A i \in 1..Len(tasks) :
          tasks[i].failed => tasks[i].done /\ ~tasks[i].has_stats
    /\ (smartPc \in {"register", "done"} /\ Len(players) > 1) =>
          /\ AllDone(tasks)
          /\ Len(results) = Len(players)
          /\ \A i \in 1..Len(results) :
                /\ results[i].player = players[i]
                /\ results[i].has_stats = HasRecordedStats(tasks[i])

\* C8 witness: the first candidate's probe raised, the second candidate's
\* probe found stats after it, and the second candidate is the answer.
C8_Witness ==
    /\ Disambiguated
    /\ tasks[1].failed /\ tasks[1].batting = "raise"
    /\ HasRecordedStats(tasks[2])
    /\ smartResult = Result("player", <<players[2]>>, 0)

SpecAgg == InitAgg /\ [][AggNext]_vars

SpecAggStats == InitAgg /\ [][AggStatsNext]_vars

InitComposite == AggInit /\ sources = Providers /\ CompIdle /\ SmartIdle /\ SrcIdle /\ NameIdle /\ BatIdle /\ LimIdle /\ ProvIdle

SpecComposite == InitComposite /\ [][CompNext]_vars

(***************************************************************************)
(* Properties of CompositeProvider.get_player_stats                        *)
(***************************************************************************)
\* the providers called so far
CalledProviders == {compCalls[i].prov : i \in 1..Len(compCalls)}

\* the seasons of a list of rows
SeasonsOf(rows) == {rows[i].season : i \in 1..Len(rows)}

\* C2 as stated: with a season given the call routes to exactly one provider,
\* the historical provider alone for every season below the cutoff and the
\* scraper provider alone for every season from the cutoff on.
C2_Original ==
    (compSeason # NoObject /\ compPc # "idle") =>
        /\ Len(compCalls) = 1
        /\ (compSeason[1] < HISTORICAL_CUTOFF_YEAR => CalledProviders = {"historical"})
        /\ (compSeason[1] >= HISTORICAL_CUTOFF_YEAR => CalledProviders = {"scraper"})

\* the career request ended after both providers returned season rows
BothReturnedRows ==
    /\ compPc = "done" /\ compSeason = NoObject
    /\ hist_returned # NoObject /\ ~hist_returned[1].error /\ hist_returned[1].stats # <<>>
    /\ modern_stats # NoObject /\ ~modern_stats[1].error /\ modern_stats[1].stats # <<>>

\* C3: when both providers returned season rows in a career request, the
\* merged list holds every season of either list exactly once, every row of it
\* is a row one of the providers returned, and a season the historical
\* response has is represented by the historical provider's (first) row.
C3_CareerMergeDedup ==
    BothReturnedRows =>
        LET res == compResult[1].stats
            h == hist_returned[1].stats
            m == modern_stats[1].stats
        IN /\ \A i, j \in 1..Len(res) : res[i].season = res[j].season => i = j
           /\ SeasonsOf(res) = SeasonsOf(h) \cup SeasonsOf(m)
           /\ \A i \in 1..Len(res) :
                 /\ \/ \E k \in 1..Len(h) : res[i] = h[k]
                    \/ \E k \in 1..Len(m) : res[i] = m[k]
                 /\ res[i].season \in SeasonsOf(h) =>
                       /\ res[i].origin = "historical"
                       /\ \A k \in 1..Len(h) : h[k].season = res[i].season => res[i].n <= k

\* C3 witness: both providers returned a row of the same season and the merge
\* is done.
C3_Witness ==
    /\ BothReturnedRows
    /\ SeasonsOf(hist_returned[1].stats) \cap SeasonsOf(modern_stats[1].stats) # {}
    /\ compResult[1].source = "combined"

\* C4: a career request (season omitted) calls the historical provider first;
\* once it has answered, the scraper provider is called if and only if the
\* historical answer is an error (then the scraper's response is the result)
\* or its latest season is at least cutoff - 1; before the historical answer
\* the scraper is not called.
C4_CareerScraperIff ==
    (compSeason = NoObject /\ compPc # "idle") =>
        /\ compCalls[1] = Call("historical", NoObject)
        /\ (hist_returned = NoObject => "scraper" \notin CalledProviders)
        /\ (hist_returned # NoObject =>
              LET h == hist_returned[1]
                  within == \E i \in 1..Len(h.stats) :
                               h.stats[i].season >= HISTORICAL_CUTOFF_YEAR - 1
              IN /\ ("scraper" \in CalledProviders) <=> (h.error \/ within)
                 /\ (h.error /\ compPc = "done" => compResult = modern_stats)
                 /\ (~h.error /\ ~within => compPc = "done" /\ compResult = hist_returned))
        /\ Len(compCalls) <= 2

\* C4 witness: the historical career ends exactly one year before the cutoff
\* and the scraper has been called.
C4_Witness ==
    /\ compSeason = NoObject /\ compPc = "done"
    /\ hist_returned # NoObject /\ ~hist_returned[1].error
    /\ LastYear(hist_returned[1].stats) = HISTORICAL_CUTOFF_YEAR - 1
    /\ compCalls = <<Call("historical", NoObject), Call("scraper", NoObject)>>

(***************************************************************************)
(* Properties of the aggregator                                            *)
(***************************************************************************)
\* the priority list the running operation goes through
Prio == aggList

\* the number of priority entries the loop has gone through
Scanned == IF aggPc = "done" /\ aggBroke THEN aggIdx ELSE aggIdx - 1

\* the configured entries of a priority list, in order
Configured(lst) == LET IsConfigured(n) == n \in sources IN SelectSeq(lst, IsConfigured)

\* the providers called so far, in order
LogSources == [i \in 1..Len(aggLog) |-> aggLog[i].src]

\* the number of calls made to provider p
CallCount(p) == Cardinality({i \in 1..Len(aggLog) : aggLog[i].src = p})

\* the calls that returned an object or a non-empty list
IsContribution(e) == e.kind = "ok" /\ e.ret # <<>>

\* C1 as stated: in search_player without source, once the first-priority
\* provider of the list the search goes through has returned at least one
\* player the search ends there: no provider is called after it, and when it
\* was the first call every other provider has call count 0.
C1_Original ==
    aggOp = "player_search" =>
        \A i \in 1..Len(aggLog) :
            (aggLog[i].src = Prio[1] /\ IsContribution(aggLog[i])) =>
                /\ i = Len(aggLog)
                /\ aggPc = "done"
                /\ (i = 1 => \A p \in Providers \ {Prio[1]} : CallCount(p) = 0)

\* C9: in search_player and get_player_stats without source a provider's
\* exception never leaves the call, the failing call contributes nothing to
\* the result, and the loop goes on: the providers called are exactly the
\* configured entries of the priority list gone through so far, the whole
\* list unless a call that returned normally took the break.
C9_ProviderErrorSwallowed ==
    aggOp # "none" =>
        /\ aggPc # "raised"
        /\ Scanned \in 0..Len(Prio)
        /\ LogSources = Configured(SubSeq(Prio, 1, Scanned))
        /\ (aggPc = "done" /\ ~aggBroke => Scanned = Len(Prio))
        /\ (aggBroke => aggLog # <<>> /\ aggLog[Len(aggLog)].kind = "ok")
        /\ \A i \in 1..Len(all_players) : aggLog[all_players[i].call].kind = "ok"
        /\ (base_stats # NoObject =>
                base_stats[1].source =
                    LET contrib == SelectSeq(aggLog, IsContribution)
                    IN [i \in 1..Len(contrib) |-> contrib[i].src])

\* C9 witness: a get_player_stats call is over in which the first provider
\* called raised and a later provider was still called and gave the result.
C9_Witness ==
    /\ aggOp = "player_stats" /\ aggPc = "done"
    /\ Len(aggLog) >= 2 /\ aggLog[1].kind = "raise"
    /\ IsContribution(aggLog[Len(aggLog)])
    /\ base_stats # NoObject

\* the fields of a stats object that merging is said to preserve
AllStatsFields == AdvancedFields \cup {"games", "source"}

\* C10 as stated: every field that was set in the first non-null stats object
\* has the same value in the accumulated object, the source tag included.
C10_Original ==
    (first_stats # NoObject /\ base_stats # NoObject) =>
        \A f \in AllStatsFields :
            first_stats[1][f] # None => base_stats[1][f] = first_stats[1][f]

\* C10 amended: every field other than the source tag that was set in the
\* first non-null stats object has the same value in the accumulated object; a
\* value that differs from the first object's was taken from a later provider
\* for a field the first object had unset; the source tag starts with the
\* first object's tag.
C10_MergeKeepsPopulated ==
    (first_stats # NoObject /\ base_stats # NoObject) =>
        /\ \A f \in AllStatsFields \ {"source"} :
              /\ first_stats[1][f] # None => base_stats[1][f] = first_stats[1][f]
              /\ base_stats[1][f] # first_stats[1][f] =>
                    /\ first_stats[1][f] = None
                    /\ \E i \in 1..Len(aggLog) :
                          /\ IsContribution(aggLog[i])
                          /\ aggLog[i].ret[1][f] = base_stats[1][f]
        /\ SubSeq(base_stats[1].source, 1, 1) = first_stats[1].source

\* C10 witness: a later provider offered a different value for a field the
\* first object had set, and a value for a field it had unset, and the two
\* objects were merged.
C10_Witness ==
    /\ first_stats # NoObject /\ base_stats # NoObject
    /\ Len(base_stats[1].source) >= 2
    /\ \E f \in AdvancedFields : \E i \in 1..Len(aggLog) :
          /\ IsContribution(aggLog[i])
          /\ first_stats[1][f] # None
          /\ aggLog[i].ret[1][f] \notin {None, first_stats[1][f]}
    /\ \E f \in AdvancedFields :
          first_stats[1][f] = None /\ base_stats[1][f] # None

\* the accumulated stats object has every optional advanced field set
AllAdvancedPopulated(base) ==
    base # NoObject /\ \A f \in AdvancedFields : base[1][f] # None

\* C11 as stated: get_player_stats without source leaves the loop early
\* exactly once every optional advanced field (war, wrc_plus, xwoba, fip, xfip)
\* of the accumulated object is set; while one of them is unset and entries of
\* the priority list remain, the loop goes on to the next configured provider.
C11_Original ==
    aggOp = "player_stats" =>
        /\ aggBroke => AllAdvancedPopulated(base_stats)
        /\ (aggPc = "done" /\ ~AllAdvancedPopulated(base_stats)) => Scanned = Len(Prio)
        /\ (AllAdvancedPopulated(base_stats) /\ aggLog # <<>>
              /\ IsContribution(aggLog[Len(aggLog)])) => aggPc = "done"

\* C12 as stated: merging never changes an object it was given: after the
\* aggregator's stats merging every stats object a provider returned has the
\* field values and the source tag it was returned with, and a merged result is
\* an object of its own, none of the returned ones; after the composite career
\* merge the historical response is as the provider returned it (season list,
\* source tag, career totals) and the result is not that response.
C12_Original ==
    /\ aggOp = "player_stats" =>
          /\ \A i \in 1..Len(heap) : heap[i].now = heap[i].returned
          /\ (Len(heap) >= 2 => base_ref = 0)
    /\ (compPc = "done" /\ compSeason = NoObject /\ hist_returned # NoObject) =>
          /\ historical_stats = hist_returned
          /\ (modern_stats # NoObject /\ ~modern_stats[1].error
                /\ modern_stats[1].stats # <<>> /\ ~hist_returned[1].error)
                => compResult # historical_stats

\* the career request returned a response that carries career totals
CareerTotalsReturned ==
    /\ compPc = "done" /\ compSeason = NoObject
    /\ compResult # NoObject /\ ~compResult[1].error
    /\ compResult[1].career_totals # NoObject

\* C13 as stated: in every career response the composite provider returns,
\* merged with scraper seasons or not, each counting field of career_totals is
\* the sum of that field over the season rows of the returned list, and each
\* rate (batting average, ERA, WHIP) is the rate of those sums.
C13_Original ==
    CareerTotalsReturned =>
        LET rows == compResult[1].stats
            t == compResult[1].career_totals[1]
        IN /\ t.seasons = Len(rows)
           /\ t.walks = SumField(rows, "walks")
           /\ compResult[1].stats_type = "batting" =>
                 /\ t.hits = SumField(rows, "hits")
                 /\ t.at_bats = SumField(rows, "at_bats")
                 /\ t.batting_average = RoundedRate(t.hits, t.at_bats, 1000)
           /\ compResult[1].stats_type = "pitching" =>
                 /\ t.earned_runs = SumField(rows, "earned_runs")
                 /\ t.innings_pitched = SumField(rows, "innings_pitched")
                 /\ t.hits_allowed = SumField(rows, "hits_allowed")
                 /\ t.era = RoundedRate(t.earned_runs * 9, t.innings_pitched, 100)
                 /\ t.whip = RoundedRate(t.hits_allowed + t.walks, t.innings_pitched, 1000)

\* C14: health_check never raises, and the map it returns has exactly one
\* entry per configured provider, each a boolean: false for a provider whose
\* health_check raised, and for every other provider the value its own
\* health_check returned.
C14_HealthCheckMap ==
    /\ healthPc # "raised"
    /\ healthPc = "done" =>
          /\ DOMAIN health_status = sources
          /\ Len(healthLog) = Cardinality(sources)
          /\ \A i \in 1..Len(healthLog) :
                /\ health_status[healthLog[i].src] \in BOOLEAN
                /\ healthLog[i].raised => health_status[healthLog[i].src] = FALSE
                /\ ~healthLog[i].raised =>
                      health_status[healthLog[i].src] = healthLog[i].value

\* C14 witness: of three configured providers the second one's health_check
\* raised, the first and the third returned true, and the call has returned.
C14_Witness ==
    /\ healthPc = "done" /\ Len(healthLog) = 3
    /\ healthLog[2].raised /\ health_status[healthLog[2].src] = FALSE
    /\ ~healthLog[1].raised /\ health_status[healthLog[1].src] = TRUE
    /\ ~healthLog[3].raised /\ health_status[healthLog[3].src] = TRUE

\* a player object comes before another in priority order: it was returned by
\* an earlier call, or earlier in the list of the same call
Precedes(c1, pos1, c2, pos2) == c1 < c2 \/ (c1 = c2 /\ pos1 < pos2)

\* C15: the list search_player accumulates without source has no two players
\* with the same id; it holds every id a provider returned; the entry kept for
\* an id is the first one met in priority order (over the providers and within
\* one provider's list); and the entries are in priority order.
C15_SearchDedup ==
    aggOp = "player_search" =>
        /\ \A k, l \in 1..Len(all_players) :
              all_players[k].id = all_players[l].id => k = l
        /\ \A k, l \in 1..Len(all_players) :
              k < l => Precedes(all_players[k].call, all_players[k].pos,
                                all_players[l].call, all_players[l].pos)
        /\ \A k \in 1..Len(all_players) :
              LET e == all_players[k]
              IN /\ e.call \in 1..Len(aggLog) /\ aggLog[e.call].kind = "ok"
                 /\ e.pos \in 1..Len(aggLog[e.call].ret)
                 /\ aggLog[e.call].ret[e.pos] = e.id
                 /\ aggLog[e.call].src = e.source
        /\ \A c \in 1..Len(aggLog) :
              aggLog[c].kind = "ok" =>
                 \A i \in 1..Len(aggLog[c].ret) :
                    \E k \in 1..Len(all_players) :
                       /\ all_players[k].id = aggLog[c].ret[i]
                       /\ ~Precedes(c, i, all_players[k].call, all_players[k].pos)

\* C15 witness: one provider returned the same id twice, a later provider
\* returned that id again together with a new one, and both ids are in the
\* list once.
C15_Witness ==
    /\ aggOp = "player_search" /\ aggPc = "done"
    /\ \E c, d \in 1..Len(aggLog) :
          /\ c < d /\ aggLog[c].kind = "ok" /\ aggLog[d].kind = "ok"
          /\ aggLog[c].ret = <<"p1", "p1">>
          /\ aggLog[d].ret = <<"p1", "p2">>
    /\ Len(all_players) = 2

\* the ids of a list of player dictionaries
IdsOf(lst) == {lst[i].id : i \in 1..Len(lst)}

\* the scraper result j is in the list returned
ModernResultKept(j) ==
    \E k \in (Len(historical_results) + 1)..Len(all_results) : all_results[k].n = j

\* C16 as stated: every entry returned is tagged with its origin, every
\* historical result is there, and a scraper result is there if and only if no
\* historical result has its id.
C16_Original ==
    csPc = "done" =>
        /\ SubSeq(all_results, 1, Len(historical_results))
              = Tagged(historical_results, "historical")
        /\ \A j \in 1..Len(modern_results) :
              ModernResultKept(j) <=> modern_results[j].id \notin IdsOf(historical_results)

\* C16: CompositeProvider.search_player returns the historical results
\* followed by scraper results, every entry tagged with its origin; every
\* historical result is there; a scraper result is there if and only if its id
\* is not empty and no historical result has its id, so an id both providers
\* have is represented by the historical entry; the scraper results kept are in
\* the scraper's order.
C16_SearchConcatTagged ==
    csPc = "done" =>
        LET h == historical_results
            m == modern_results
            res == all_results
        IN /\ Len(res) >= Len(h)
           /\ SubSeq(res, 1, Len(h)) = Tagged(h, "historical")
           /\ \A k \in (Len(h) + 1)..Len(res) :
                 /\ res[k].origin = "modern" /\ res[k].source = "modern"
                 /\ res[k].n \in 1..Len(m) /\ res[k] = Tagged(m, "modern")[res[k].n]
                 /\ \A l \in (k + 1)..Len(res) : res[k].n < res[l].n
           /\ \A j \in 1..Len(m) :
                 ModernResultKept(j) <=> (m[j].id # "" /\ m[j].id \notin IdsOf(h))
           /\ \A k \in 1..Len(res) :
                 res[k].id \in IdsOf(h) => res[k].origin = "historical"

\* C16 witness: both providers returned a player with the same id, the
\* scraper also one with another id, and the list returned has the historical
\* entry of the shared id and the scraper's other entry.
C16_Witness ==
    /\ csPc = "done"
    /\ Len(historical_results) = 1 /\ Len(modern_results) = 2
    /\ modern_results[1].id = historical_results[1].id
    /\ modern_results[2].id # historical_results[1].id
    /\ Len(all_results) = 2
    /\ all_results[1].source = "historical" /\ all_results[2].source = "modern"

\* the standings call returned the explicit not-available dictionary of the
\* archive: a dictionary with "error", not made by the scraper
ArchiveNotAvailable ==
    /\ stPc = "done" /\ stResult # NoObject
    /\ stResult[1].error /\ stResult[1].origin # "scraper"

\* C17 as stated: HistoricalDataProvider.get_standings always returns the
\* not-available result, and CompositeProvider.get_standings returns it for
\* every season below the cutoff without a call of the scraper provider.
C17_Original ==
    /\ (stProvider = "historical" /\ stPc # "idle") => ArchiveNotAvailable
    /\ (stProvider = "composite" /\ stSeason # NoObject
          /\ stSeason[1] < HISTORICAL_CUTOFF_YEAR) =>
             stCalls = <<>> /\ ArchiveNotAvailable

\* the values search_player and get_player_stats return when every fetch
\* succeeded and no record matched
NotFoundResults == {Some(PyList(<<>>)), Some(PyNone)}

\* a fetch of the call of the caller c failed in transport
TransportFailed(c) == FailedBefore(srcLog[c])

\* C18 as stated: a transport failure inside search_player or
\* get_player_stats of a source reaches the caller as an explicit error: the
\* call does not come back with the empty list or None that it returns when
\* the fetches succeeded and no record matched.
C18_Original ==
    \A c \in Callers :
        (srcPc[c] = "done" /\ TransportFailed(c)) => srcResult[c] \notin NotFoundResults

\* C19 as stated: a call of a method wrapped by cache_result that hits the
\* cache returns data identical to what the cold call with the same arguments
\* returned.
C19_Original ==
    \A c \in Callers : \A i \in 1..Len(srcLog[c]) :
        srcLog[c][i].hit => srcLog[c][i].value = srcLog[c][i].cold

\* C20 as stated: the key cache_result uses for a call of a wrapped method is
\* get_cache_key(operation name, *explicit arguments), whichever source
\* object makes the call.
C20_Original ==
    \A c \in Callers : \A i \in 1..Len(srcLog[c]) :
        srcLog[c][i].key = srcLog[c][i].explicit

\* C21 as stated: normalize_name is idempotent, normalize_name of a
\* normalized name is that name.
C21_Original ==
    nmPc # "start" /\ nmPc # "idle" => normalize_name(nmNormalized) = nmNormalized

\* C22: match_name is reflexive under normalization: for every non-empty
\* name x, match_name(normalize_name(x), x) is true in the non-strict mode.
C22_MatchReflexive ==
    (nmPc = "matched" /\ ~nmStrict /\ nmName # <<>>) => nmMatch

\* C22 witness: a name whose normalized form is not a fixed point of
\* normalize_name (the exact comparison fails) was matched against its
\* normalized form in the non-strict mode, and matched.
C22_Witness ==
    /\ nmPc = "matched" /\ ~nmStrict /\ nmName # <<>>
    /\ normalize_name(nmNormalized) # nmNormalized
    /\ nmMatch

\* C23 as stated: generate_name_variants(name) contains normalize_name(name),
\* every variant of the normalized form made with one entry of the
\* romanization table, and for a name of two words the swapped form.
C23_Original ==
    nmPc \in {"variants", "matched"} =>
        /\ nmNormalized \in nmVariants
        /\ RomanizationVariantsOf(nmNormalized) \subseteq nmVariants
        /\ Len(Split(nmName)) = 2 =>
              Split(nmName)[2] \o <<" ">> \o Split(nmName)[1] \in nmVariants

\* C24 as stated: every batting season record with non-zero at-bats carries
\* an OPS, and it is OBP + SLG (in thousandths), whichever producer made the
\* record.
C24_Original ==
    \A i \in 1..Len(btRecord) :
        (btPc = "done" /\ btRecord[i].at_bats # NoObject /\ btRecord[i].at_bats[1] # 0) =>
            /\ btRecord[i].ops # NoObject
            /\ btRecord[i].on_base_percentage # NoObject
            /\ btRecord[i].slugging_percentage # NoObject
            /\ btRecord[i].ops[1] =
                  PyFloat(btRecord[i].on_base_percentage[1]
                            + btRecord[i].slugging_percentage[1], 0)

\* C25 as stated: under any interleaving of the callers of one instance, any
\* two consecutive outbound requests of the instance are at least the
\* configured minimum delay apart.
C25_Original ==
    \A i \in 1..(Len(limRequests) - 1) :
        limRequests[i + 1].at - limRequests[i].at >= DelayOf(limKind)

\* the sources whose probe health_check has started: those that answered,
\* and the one it is waiting for
ProbesStarted ==
    {healthLog[i].src : i \in 1..Len(healthLog)}
        \cup (IF healthPc = "probing" THEN {Head(healthLeft)} ELSE {})

\* C26 as stated (health check): while NPBDataAggregator.health_check waits
\* for a probe, the probe of every source has been started; no probe waits
\* for the probe of another source to finish.
C26_Original ==
    healthPc = "probing" => ProbesStarted = sources

\* C27 as stated: a result cached by a method decorated with
\* cache_result(ttl_hours=0) is permanent: once an entry is written for a
\* key, every later call with that key is a hit that returns the stored data.
C27_Original ==
    \A c \in Callers : \A i \in 1..Len(srcLog[c]) :
        (srcOp[c] = "reference_stats" /\ srcLog[c][i].stored) => srcLog[c][i].hit

\* C29 as stated: a transport failure is never cached: a call of a cached
\* page parser whose fetch failed leaves nothing stored under its key.
C29_Original ==
    \A c \in Callers : \A i \in 1..Len(srcLog[c]) :
        srcLog[c][i].outcome = "fail" => srcLog[c][i].key \notin DOMAIN cache

\* C28 as stated: whatever the interleaving of the calls on one
\* ScraperProvider, no request is sent on a client that is already closed,
\* and once every call has returned every client that was opened is closed.
C28_Original ==
    /\ \A i \in 1..Len(provLog) : provLog[i].state = "open"
    /\ (\A c \in Callers : provPc[c] = "returned") =>
          \A k \in 1..Len(clients) : clients[k] = "closed"

\* the ids of the candidates the aggregator search returned
CandidateIds == {players[i].id : i \in 1..Len(players)}

\* C30 as stated: every player the disambiguation workflow returns has the
\* id of a candidate the aggregator search returned.
C30_Original ==
    smartPc = "done" =>
        \A k \in 1..Len(smartResult.listed) : smartResult.listed[k].id \in CandidateIds

====
